---- MODULE Spec2Model ----
(***************************************************************************)
(* DEGARI-Music: a model of the Prototype Matcher (Recommender.py), of the *)
(* composite-profile assembly (build_clean_prototype), of the Prototype    *)
(* Builder (prototyper.py), of the Distiller (BuildTypicalRigid.py) and of *)
(* the result file of the blend step (cocos.py, DataFromInput.py).         *)
(*                                                                         *)
(* Text is a sequence of one-character strings, so that contains_word is   *)
(* the substring search of the source.  Scores are integers: hundredths in *)
(* the Matcher (the source rounds every addend to 2 decimals), thousandths *)
(* in a Prototype artifact (the Builder rounds to 3 decimals).             *)
(***************************************************************************)
EXTENDS Integers, Sequences, FiniteSets, TLC

VARIABLES
  \* ---- Matcher (elaboraGraduatoria) ----
  data,            \* the catalog: a sequence of instances (field -> value)
  protFiles,       \* the prototype folder: inst_id -> sequence of lines
  prop_list,       \* active property names, in order
  anchors_set,     \* names of the rigid properties
  not_prop_list,   \* negated property names
  min_match_rate,  \* in percent (15 is 0.15)
  min_anchors,
  max_print,       \* 0 is None
  graduatoria,     \* inst_id -> accumulated score, in hundredths
  gradOrder,       \* insertion order of the keys of graduatoria
  lista_istanze,   \* admitted instances: [label, matches]
  tot_items,
  printed,
  output,          \* the lines printed by the final listing
  mpc,             \* position of the Matcher
  mi,              \* loop index of the Matcher
  admitted,        \* observation: catalog positions appended to lista_istanze
  rawScore,        \* observation: position -> graduatoria entry after loop 1
  \* ---- build_clean_prototype ----
  profile,         \* the parsed profile f: [attrs, tipical_attrs, result]
  clean,           \* returned list of active names
  anchors,         \* returned anchor set
  bpc,
  \* ---- Prototype Builder (prototyper.main) ----
  TAGGER,          \* "none" or "ready"
  dict_prototypes, \* ordered dict: sequence of [artwork, counts]
  item,            \* index of the instance being processed
  word,            \* the token being processed, or NoWord
  verbo,           \* the pending verb lemma, or NoVerb
  n_items,
  written,         \* the artifacts [artwork, lines], lines of [word, score]
  ppc,
  ntok,            \* number of tokens read so far in the run
  trace,           \* observation: item -> the tokens processed, in order
  raised,          \* observation: items whose processing raised
  \* ---- Distiller (BuildTypicalRigid.main) ----
  catalog,         \* data: the sequence of entries read from the input
  args,            \* the thresholds (in percent) and the limits
  songs_by_genre,  \* genre -> sequence of indices into catalog
  tag_df_by_g,     \* genre -> Counter: sequence of [k, n] in insertion order
  word_df_by_g,    \* genre -> Counter
  global_genre_count, \* property -> number of genres that have it
  typOut,          \* the typical artifacts: genre -> lines [k, w]
  rigOut,          \* the rigid artifacts: genre -> lines
  dpc,
  dg,              \* index into MACRO_GENRES of the loops
  ds,              \* index of the song in the DF loop
  runNo,           \* 1 in the first run, 2 in a second run on the same input
  prevOut,         \* the artifacts of the first run, kept for comparison
  \* ---- blend step (cocos.write_result) and its hand-off ----
  cfile,           \* the text of the composite-profile file
  origFile,        \* observation: the text before the first write_result
  lastCall,        \* observation: best_props and best_raw of the last call
  wn,              \* number of write_result calls so far
  fpc

mvars == <<data, protFiles, prop_list, anchors_set, not_prop_list,
           min_match_rate, min_anchors, max_print, graduatoria, gradOrder,
           lista_istanze, tot_items, printed, output, mpc, mi, admitted,
           rawScore>>
bvars == <<profile, clean, anchors, bpc>>
pvars == <<TAGGER, dict_prototypes, item, word, verbo, n_items, written,
           ppc, ntok, trace, raised>>
dvars == <<catalog, args, songs_by_genre, tag_df_by_g, word_df_by_g,
           global_genre_count, typOut, rigOut, dpc, dg, ds, runNo, prevOut>>
fvars == <<cfile, origFile, lastCall, wn, fpc>>
vars == <<mvars, bvars, pvars, dvars, fvars>>

(***************************************************************************)
(* Bounds                                                                  *)
(***************************************************************************)
MaxTracks == 2
MaxTokens == 3   \* tokens of the whole catalog read by the Prototype Builder
MaxCount == 5    \* largest count of a lemma handed to the writing loop
MaxSongs == 3    \* entries of the catalog read by the Distiller
MaxAssign == 2   \* entries of the catalog in the runs of the partition alone

(***************************************************************************)
(* Generic helpers                                                         *)
(***************************************************************************)
Range(s) == {s[k] : k \in 1..Len(s)}

RECURSIVE Join(_)
\* " ".join(map(str, v))
Join(l) ==
  IF Len(l) = 0 THEN <<>>
  ELSE IF Len(l) = 1 THEN l[1]
  ELSE l[1] \o <<" ">> \o Join(Tail(l))

\* Python's "w in s" on strings
IsSubstr(w, s) ==
  \E k \in 0..(Len(s) - Len(w)) : SubSeq(s, k + 1, k + Len(w)) = w

RECURSIVE FilterSeq(_, _)
\* the subsequence of s whose elements are not in the set drop
FilterSeq(s, drop) ==
  IF Len(s) = 0 THEN <<>>
  ELSE IF s[1] \in drop THEN FilterSeq(Tail(s), drop)
  ELSE <<s[1]>> \o FilterSeq(Tail(s), drop)

(***************************************************************************)
(* Recommender.py: helpers                                                 *)
(***************************************************************************)
\* A JSON value is [k |-> "s", v |-> text], [k |-> "l", v |-> list of texts]
\* or [k |-> "n"] (null).
StrV(t) == [k |-> "s", v |-> t]
LstV(l) == [k |-> "l", v |-> l]

as_text(x) ==
  IF x.k = "l" THEN Join(x.v)
  ELSE IF x.k = "n" THEN <<>>
  ELSE x.v

contains_word(s, w) ==
  LET sp == <<" ">> \o as_text(s) \o <<" ">>
  IN  \/ IsSubstr(<<" ">> \o w \o <<" ">>, sp)
      \/ IsSubstr(<<" ">> \o w \o <<",">>, sp)

\* cfg (Recommender_config.py)
instanceID == "ID"
instanceTitle == <<"title", "artist">>
instanceDescr == <<"lyrics", "tags", "moods", "instruments", "subgenres",
                   "contexts", "artist", "album", "year">>

chars_not_allowed_in_filename == {"\\", "/", ":", "*", "?", "\"", "<", ">", "|"}

\* inst_id: forbidden characters removed, apostrophes replaced by "_"
SanitizeId(inst) ==
  LET t == FilterSeq(as_text(inst[instanceID]), chars_not_allowed_in_filename)
  IN  [k \in 1..Len(t) |-> IF t[k] = "'" THEN "_" ELSE t[k]]

contains_value(lista, w) == \E k \in 1..Len(lista) : lista[k] = w

\* round(x, 2) of a score stored with 3 decimals, in hundredths.  Python
\* rounds the binary value: of the 3-decimal values of [0.6, 0.9] ending in
\* 5 the ones in RoundsUp lie above the midpoint (or are exact ties with an
\* odd hundredth), the others (0.605, 0.615, 0.625, 0.695, ...) round down.
RoundsUp == {635, 645, 655, 665, 675, 685, 755, 765, 775, 785, 795, 805,
             875, 885, 895}
round2(t) ==
  IF t % 10 > 5 \/ (t % 10 = 5 /\ t \in RoundsUp) THEN (t \div 10) + 1
  ELSE t \div 10

\* A prototype line is [kind, key, val]: kind "ok" is "<key>: <val/1000>",
\* "bad" has a score float() cannot parse, "nocolon" has no ':' at all.
RECURSIVE ProtoSumAllLines(_, _)
\* mutant of ProtoSum: the key is not looked up in prop_list
ProtoSumAllLines(lines, plist) ==
  IF Len(lines) = 0 THEN 0
  ELSE (IF lines[1].kind = "ok" THEN round2(lines[1].val) ELSE 0)
       + ProtoSumAllLines(Tail(lines), plist)

RECURSIVE ProtoSumStopAtBad(_, _)
\* mutant of ProtoSum: a line that is not well formed ends the reading
ProtoSumStopAtBad(lines, plist) ==
  IF Len(lines) = 0 THEN 0
  ELSE IF lines[1].kind # "ok" THEN 0
  ELSE (IF contains_value(plist, lines[1].key) THEN round2(lines[1].val)
        ELSE 0)
       + ProtoSumStopAtBad(Tail(lines), plist)

RECURSIVE ProtoSum(_, _)
\* Recommender.py 148-157: the sum added to graduatoria[inst_id]
ProtoSum(lines, plist) ==
  IF Len(lines) = 0 THEN 0
  ELSE LET ln == lines[1]
           add == IF ln.kind # "nocolon" /\ contains_value(plist, ln.key)
                  THEN (IF ln.kind = "ok" THEN round2(ln.val) ELSE 0)
                  ELSE 0
       IN  add + ProtoSum(Tail(lines), plist)

\* Recommender.py 137-142: the title boost, in hundredths
TitleBoost(inst, plist) ==
  IF \E p \in 1..Len(plist) : \E t \in 1..Len(instanceTitle) :
        /\ instanceTitle[t] \in DOMAIN inst
        /\ contains_word(inst[instanceTitle[t]], plist[p])
  THEN 10 ELSE 0

\* Recommender.py 173-185: in_hit of one property name
InHit(inst, prop_name) ==
  \/ \E f \in 1..Len(instanceDescr) :
        /\ instanceDescr[f] \in DOMAIN inst
        /\ contains_word(inst[instanceDescr[f]], prop_name)
  \/ \E f \in 1..Len(instanceTitle) :
        /\ instanceTitle[f] \in DOMAIN inst
        /\ contains_word(inst[instanceTitle[f]], prop_name)

\* Recommender.py 192-205: neg_hit
NegHit(inst, nots) ==
  \E n \in 1..Len(nots) :
     \/ \E f \in 1..Len(instanceDescr) :
           /\ instanceDescr[f] \in DOMAIN inst
           /\ contains_word(inst[instanceDescr[f]], nots[n])
     \/ /\ Len(instanceTitle) > 0
        /\ instanceTitle[1] \in DOMAIN inst
        /\ contains_word(inst[instanceTitle[1]], nots[n])

\* Recommender.py 169-205: matches as it stands when the thresholds are read
MatchesOf(inst, names_only, nots) ==
  IF NegHit(inst, nots) THEN <<>>
  ELSE SelectSeq(names_only, LAMBDA p : InHit(inst, p))

\* Recommender.py 170, 188-189: anchor_hits (never cleared)
AnchorHitsOf(inst, names_only, anch) ==
  {p \in Range(names_only) : InHit(inst, p) /\ p \in anch}

\* Recommender.py 208: int(len(names_only) * min_match_rate)
CoverageThreshold(n, rate) == (n * rate) \div 100

\* mutant of enough_coverage: an empty names_only is not tested
enough_coverageAnyLen(inst, names_only, nots, rate) ==
  Len(MatchesOf(inst, names_only, nots))
     >= CoverageThreshold(Len(names_only), rate)

\* Recommender.py 208
enough_coverage(inst, names_only, nots, rate) ==
  /\ Len(names_only) > 0
  /\ Len(MatchesOf(inst, names_only, nots))
        >= CoverageThreshold(Len(names_only), rate)

enough_anchors(inst, names_only, anch, mina) ==
  Cardinality(AnchorHitsOf(inst, names_only, anch)) >= mina

\* Recommender.py 212-214: f"{inst_id} - {as_text(title_field)}"
LabelOf(inst) ==
  SanitizeId(inst) \o <<" ", "-", " ">> \o
    (IF instanceTitle[1] \in DOMAIN inst THEN as_text(inst[instanceTitle[1]])
     ELSE <<>>)

RECURSIVE InsertDescUnstable(_, _, _)
\* mutant of InsertDesc: x overtakes the elements of equal score
InsertDescUnstable(x, s, score) ==
  IF Len(s) = 0 THEN <<x>>
  ELSE IF score[s[1]] > score[x]
       THEN <<s[1]>> \o InsertDescUnstable(x, Tail(s), score)
       ELSE <<x>> \o s

RECURSIVE InsertDesc(_, _, _)
\* insert key x into the sequence s (sorted by descending score), after every
\* element whose score is >= the score of x
InsertDesc(x, s, score) ==
  IF Len(s) = 0 THEN <<x>>
  ELSE IF score[s[1]] >= score[x] THEN <<s[1]>> \o InsertDesc(x, Tail(s), score)
  ELSE <<x>> \o s

RECURSIVE SortedDesc(_, _)
\* sorted(graduatoria.items(), key=lambda kv: kv[1], reverse=True): stable
SortedDesc(order, score) ==
  IF Len(order) = 0 THEN <<>>
  ELSE InsertDesc(order[Len(order)],
                  SortedDesc(SubSeq(order, 1, Len(order) - 1), score), score)

RECURSIVE InnerListing(_, _, _, _, _, _)
\* Recommender.py 227-234: the inner loop over lista_istanze for one artwork;
\* returns the new value of printed and the lines printed
InnerListing(k, lista, artwork, pr, out, maxp) ==
  IF k > Len(lista) THEN [printed |-> pr, out |-> out]
  ELSE IF IsSubstr(<<" ">> \o artwork \o <<" ">>,
                   <<" ">> \o lista[k].label \o <<" ">>)
       THEN LET pr2 == pr + 1
                out2 == Append(out, [kind |-> "item", artwork |-> artwork,
                                     label |-> lista[k].label])
            IN  IF maxp # 0 /\ pr2 >= maxp
                THEN [printed |-> pr2, out |-> out2]
                ELSE InnerListing(k + 1, lista, artwork, pr2, out2, maxp)
       ELSE InnerListing(k + 1, lista, artwork, pr, out, maxp)

(***************************************************************************)
(* Matcher inputs                                                          *)
(***************************************************************************)
T1 == [ID |-> StrV(<<"1">>), title |-> StrV(<<"x">>),
       lyrics |-> StrV(<<"a", " ", "x">>)]
T2 == [ID |-> StrV(<<"2">>), title |-> StrV(<<"a">>), artist |-> StrV(<<"x">>),
       lyrics |-> StrV(<<"c", ",", " ", "x">>)]
T3 == [ID |-> StrV(<<"3">>), title |-> StrV(<<"y">>),
       lyrics |-> StrV(<<"a", " ", "b", " ", "c">>),
       tags |-> LstV(<< <<"d">>, <<"n">> >>)]
T4 == [ID |-> StrV(<<"4">>), title |-> [k |-> "n"],
       tags |-> LstV(<< <<"b">>, <<"x">> >>)]
T5 == [title |-> StrV(<<"a">>), lyrics |-> StrV(<<"a", " ", "b">>)]
T6 == [ID |-> StrV(<<"6">>), title |-> StrV(<<"x">>),
       lyrics |-> StrV(<<"a", "b", " ", "x">>)]
TrackPool == {T1, T2, T3, T4, T5, T6}

HasId(inst) == instanceID \in DOMAIN inst

\* catalogs of at most MaxTracks records whose identifiers are unique
Catalogs ==
  {c \in UNION {[1..n -> TrackPool] : n \in 0..MaxTracks} :
     \A p, q \in 1..Len(c) :
        (p # q /\ HasId(c[p]) /\ HasId(c[q]))
           => SanitizeId(c[p]) # SanitizeId(c[q])}

\* records whose title holds the identifier of another record as a word,
\* that share an identifier, or whose identifier holds a space
T7 == [ID |-> StrV(<<"2">>), title |-> StrV(<<"1", " ", "y">>),
       lyrics |-> StrV(<<"a">>)]
T8 == [ID |-> StrV(<<"1">>), title |-> StrV(<<"b">>),
       lyrics |-> StrV(<<"a", " ", "b">>)]
T9 == [ID |-> StrV(<<"1", " ", "2">>), title |-> StrV(<<"c">>),
       lyrics |-> StrV(<<"a", " ", "c">>)]
\* catalogs of at most MaxTracks records, any identifiers
ListingCatalogs ==
  UNION {[1..n -> {T1, T2, T7, T8, T9}] : n \in 0..MaxTracks}

Ln(key, val) == [kind |-> "ok", key |-> key, val |-> val]
\* "<key>: <text float() rejects>" and a line without ':'
BadLn(key) == [kind |-> "bad", key |-> key, val |-> 0]
NoColonLn(text) == [kind |-> "nocolon", key |-> text, val |-> 0]
\* the prototype folder as the Builder leaves it (scores in [0.6, 0.9])
ProtFolders ==
  { (<<"1">> :> <<Ln(<<"a">>, 900), Ln(<<"x">>, 600)>>) @@
    (<<"2">> :> <<Ln(<<"x">>, 900), Ln(<<"c">>, 675), Ln(<<"a">>, 600)>>) @@
    (<<"3">> :> <<Ln(<<"a">>, 900), Ln(<<"b">>, 900), Ln(<<"n">>, 615)>>) @@
    (<<"4">> :> <<Ln(<<"b">>, 900)>>),
    (<<"1">> :> <<Ln(<<"a">>, 900)>>) @@
    (<<"3">> :> <<BadLn(<<"a">>), NoColonLn(<<"c">>), Ln(<<"c">>, 750),
                  BadLn(<<"d">>)>>) }

Props10 == << <<"a">>, <<"b">>, <<"c">>, <<"d">>, <<"e">>, <<"f">>, <<"g">>,
              <<"h">>, <<"i">>, <<"j">> >>
\* (active properties, anchors): the anchors are active properties
PropConfigs ==
  { [props |-> <<>>, anch |-> {}],
    [props |-> << <<"a">>, <<"b">>, <<"c">> >>, anch |-> {<<"a">>}],
    [props |-> << <<"a">>, <<"b">>, <<"c">> >>, anch |-> {}],
    [props |-> Props10, anch |-> {<<"a">>, <<"b">>}] }
NotLists == {<<>>, << <<"n">> >>, << <<>>, <<"x">> >>}
Rates == {0, 15, 100}
MinAnchorsSet == {0, 1, 2}
MaxPrints == {0, 1}

(***************************************************************************)
(* Matcher: elaboraGraduatoria                                             *)
(***************************************************************************)
Empty == <<>>   \* the empty dict / list / text

MatcherIdle ==
  /\ data = <<>> /\ protFiles = Empty /\ prop_list = <<>>
  /\ anchors_set = {} /\ not_prop_list = <<>> /\ min_match_rate = 0
  /\ min_anchors = 0 /\ max_print = 0 /\ graduatoria = Empty
  /\ gradOrder = <<>> /\ lista_istanze = <<>> /\ tot_items = 0
  /\ printed = 0 /\ output = <<>> /\ mpc = "idle" /\ mi = 0
  /\ admitted = {} /\ rawScore = Empty

\* Recommender.py 103-123: the call and the initialisations
MatcherInit ==
  /\ data \in Catalogs
  /\ protFiles \in ProtFolders
  /\ \E pc \in PropConfigs : prop_list = pc.props /\ anchors_set = pc.anch
  /\ \E nl \in NotLists : not_prop_list = SelectSeq(nl, LAMBDA p : p # <<>>)
  /\ min_match_rate \in Rates
  /\ min_anchors \in MinAnchorsSet
  /\ max_print \in MaxPrints
  /\ graduatoria = Empty /\ gradOrder = <<>> /\ lista_istanze = <<>>
  /\ tot_items = 0 /\ printed = 0 /\ output = <<>>
  /\ mpc = "score" /\ mi = 1
  /\ admitted = {} /\ rawScore = Empty

\* Recommender.py 103-123: the call on a catalog of ListingCatalogs
ListingInit ==
  /\ data \in ListingCatalogs
  /\ protFiles \in ProtFolders
  /\ \E pc \in PropConfigs : prop_list = pc.props /\ anchors_set = pc.anch
  /\ \E nl \in NotLists : not_prop_list = SelectSeq(nl, LAMBDA p : p # <<>>)
  /\ min_match_rate \in Rates
  /\ min_anchors \in MinAnchorsSet
  /\ max_print \in MaxPrints
  /\ graduatoria = Empty /\ gradOrder = <<>> /\ lista_istanze = <<>>
  /\ tot_items = 0 /\ printed = 0 /\ output = <<>>
  /\ mpc = "score" /\ mi = 1
  /\ admitted = {} /\ rawScore = Empty

\* Recommender.py 126-157: one iteration of the scoring loop
ScoreInstance ==
  /\ mpc = "score" /\ mi <= Len(data)
  /\ LET inst == data[mi] IN
       IF ~HasId(inst)
       THEN UNCHANGED <<tot_items, graduatoria, gradOrder, rawScore>>
       ELSE LET inst_id == SanitizeId(inst)
                lines == IF inst_id \in DOMAIN protFiles
                         THEN protFiles[inst_id] ELSE <<>>
                g2 == IF inst_id \in DOMAIN graduatoria THEN graduatoria
                      ELSE graduatoria @@
                           (inst_id :> TitleBoost(inst, prop_list)
                                        + ProtoSum(lines, prop_list))
            IN  /\ tot_items' = tot_items + 1
                /\ graduatoria' = g2
                /\ gradOrder' = IF inst_id \in DOMAIN graduatoria
                                THEN gradOrder ELSE Append(gradOrder, inst_id)
                /\ rawScore' = rawScore @@ (mi :> g2[inst_id])
  /\ mi' = mi + 1
  /\ UNCHANGED <<bvars, pvars, dvars, fvars>>
  /\ UNCHANGED <<data, protFiles, prop_list, anchors_set, not_prop_list,
                 min_match_rate, min_anchors, max_print, lista_istanze,
                 printed, output, mpc, admitted>>

\* Recommender.py 126, 160-161: the scoring loop ends, the filter loop starts
ScoreDone ==
  /\ mpc = "score" /\ mi > Len(data)
  /\ mpc' = "filter" /\ mi' = 1
  /\ UNCHANGED <<bvars, pvars, dvars, fvars>>
  /\ UNCHANGED <<data, protFiles, prop_list, anchors_set, not_prop_list,
                 min_match_rate, min_anchors, max_print, graduatoria,
                 gradOrder, lista_istanze, tot_items, printed, output,
                 admitted, rawScore>>

\* Recommender.py 161-219: one iteration of the filter loop
FilterInstance ==
  /\ mpc = "filter" /\ mi <= Len(data)
  /\ LET inst == data[mi] IN
       IF ~HasId(inst)
       THEN UNCHANGED <<graduatoria, lista_istanze, admitted>>
       ELSE LET inst_id == SanitizeId(inst)
                matches == MatchesOf(inst, prop_list, not_prop_list)
                cov == enough_coverage(inst, prop_list, not_prop_list,
                                       min_match_rate)
                anc == enough_anchors(inst, prop_list, anchors_set,
                                      min_anchors)
            IN  IF cov /\ anc
                THEN /\ lista_istanze' = Append(lista_istanze,
                            [label |-> LabelOf(inst), matches |-> matches])
                     /\ admitted' = admitted \cup {mi}
                     /\ UNCHANGED graduatoria
                ELSE /\ graduatoria' =
                          IF inst_id \in DOMAIN graduatoria
                          THEN [graduatoria EXCEPT ![inst_id] = 0]
                          ELSE graduatoria
                     /\ UNCHANGED <<lista_istanze, admitted>>
  /\ mi' = mi + 1
  /\ UNCHANGED <<bvars, pvars, dvars, fvars>>
  /\ UNCHANGED <<data, protFiles, prop_list, anchors_set, not_prop_list,
                 min_match_rate, min_anchors, max_print, gradOrder,
                 tot_items, printed, output, mpc, rawScore>>

\* Recommender.py 161, 222-223: the filter loop ends, the listing starts
FilterDone ==
  /\ mpc = "filter" /\ mi > Len(data)
  /\ mpc' = "print" /\ mi' = 1
  /\ UNCHANGED <<bvars, pvars, dvars, fvars>>
  /\ UNCHANGED <<data, protFiles, prop_list, anchors_set, not_prop_list,
                 min_match_rate, min_anchors, max_print, graduatoria,
                 gradOrder, lista_istanze, tot_items, printed, output,
                 admitted, rawScore>>

Ranking == SortedDesc(gradOrder, graduatoria)

\* Recommender.py 223-236: one iteration of the final listing
PrintArtwork ==
  /\ mpc = "print" /\ mi <= Len(Ranking)
  /\ graduatoria[Ranking[mi]] # 0
  /\ LET artwork == Ranking[mi]
         hdr == [kind |-> "hdr", artwork |-> artwork,
                 score |-> graduatoria[artwork]]
         r == InnerListing(1, lista_istanze, artwork, printed,
                           Append(output, hdr), max_print)
     IN  /\ printed' = r.printed
         /\ output' = r.out
         /\ IF max_print # 0 /\ r.printed >= max_print
            THEN mpc' = "report" /\ mi' = mi
            ELSE mpc' = mpc /\ mi' = mi + 1
  /\ UNCHANGED <<bvars, pvars, dvars, fvars>>
  /\ UNCHANGED <<data, protFiles, prop_list, anchors_set, not_prop_list,
                 min_match_rate, min_anchors, max_print, graduatoria,
                 gradOrder, lista_istanze, tot_items, admitted, rawScore>>

\* Recommender.py 223-225: the listing ends (exhausted, or a score of 0)
PrintDone ==
  /\ mpc = "print"
  /\ IF mi > Len(Ranking) THEN TRUE ELSE graduatoria[Ranking[mi]] = 0
  /\ mpc' = "report"
  /\ UNCHANGED <<bvars, pvars, dvars, fvars>>
  /\ UNCHANGED <<data, protFiles, prop_list, anchors_set, not_prop_list,
                 min_match_rate, min_anchors, max_print, graduatoria,
                 gradOrder, lista_istanze, tot_items, printed, output, mi,
                 admitted, rawScore>>

\* Recommender.py 238-244: the summary
Report ==
  /\ mpc = "report"
  /\ mpc' = "done"
  /\ UNCHANGED <<bvars, pvars, dvars, fvars>>
  /\ UNCHANGED <<data, protFiles, prop_list, anchors_set, not_prop_list,
                 min_match_rate, min_anchors, max_print, graduatoria,
                 gradOrder, lista_istanze, tot_items, printed, output, mi,
                 admitted, rawScore>>

(***************************************************************************)
(* Claims about the Matcher                                                *)
(***************************************************************************)
FilterFinished == mpc \in {"print", "report", "done"}
Scored == mpc \in {"filter", "print", "report", "done"}
IdAt(j) == SanitizeId(data[j])
Tracks == {j \in 1..Len(data) : HasId(data[j])}

\* the fields the claims call "descriptive or title fields"
TextFields == Range(instanceDescr) \cup Range(instanceTitle)
WordIn(inst, w) ==
  \E f \in TextFields : f \in DOMAIN inst /\ contains_word(inst[f], w)
MatchedProps(j) == {p \in Range(prop_list) : WordIn(data[j], p)}
MatchedAnchors(j) == MatchedProps(j) \cap anchors_set
Negated(j) == \E n \in Range(not_prop_list) : WordIn(data[j], n)
CeilRate(n, rate) == (n * rate + 99) \div 100

\* C1: a Track is admitted iff it is not negated, it matches at least
\* ceil(|active| * min_match_rate) active properties and at least min_anchors
\* distinct anchors; with rate 0.15, 1 anchor required and 10 active
\* properties, a Track matching 1 property is not admitted.  Stated for the
\* Tracks no negated property occurs in and a non-empty active set, where
\* the admission rests on the two thresholds alone.
C1_AdmissionIffCeil ==
  (FilterFinished /\ Len(prop_list) > 0) =>
    \A j \in Tracks :
      ~Negated(j) =>
        (j \in admitted <=>
           /\ Cardinality(MatchedProps(j))
                 >= CeilRate(Len(prop_list), min_match_rate)
           /\ Cardinality(MatchedAnchors(j)) >= min_anchors)

HeaderOf(j) ==
  \E k \in 1..Len(output) :
     output[k].kind = "hdr" /\ output[k].artwork = IdAt(j)
ListedOf(j) ==
  \E k \in 1..Len(output) :
     output[k].kind = "item" /\ output[k].label = LabelOf(data[j])

\* C2: a Track in which a negated property is word-contained is not admitted,
\* its final score is 0 and it is not in the ranked output.
C2_NegatedExcluded ==
  FilterFinished =>
    \A j \in Tracks :
      Negated(j) =>
        /\ j \notin admitted
        /\ graduatoria[IdAt(j)] = 0
        /\ ~HeaderOf(j) /\ ~ListedOf(j)

\* the Tracks the claim C3 expects in the output
Qualifies(j) == j \in admitted /\ rawScore[j] # 0
\* j1 is ranked before j2: higher score, or equal score and met earlier
Before(j1, j2) ==
  \/ rawScore[j1] > rawScore[j2]
  \/ rawScore[j1] = rawScore[j2] /\ j1 < j2
Headers == SelectSeq(output, LAMBDA l : l.kind = "hdr")
PosOfHeader(k) == CHOOSE j \in Tracks : IdAt(j) = Headers[k].artwork
OutputRanked ==
  /\ \A k \in 1..Len(Headers) : \E j \in Tracks : IdAt(j) = Headers[k].artwork
  /\ \A k1, k2 \in 1..Len(Headers) :
        k1 < k2 => Before(PosOfHeader(k1), PosOfHeader(k2))

\* C3 as stated: a Track appears iff it was admitted with a non-zero
\* accumulated score, in descending score, ties in encounter order.
C3_OutputIffAdmittedNonZero ==
  mpc = "done" =>
    /\ \A j \in Tracks : HeaderOf(j) <=> Qualifies(j)
    /\ OutputRanked

\* C3 as amended: the output is a prefix of that ranking (cut by max_print),
\* and the whole ranking when max_print is not given.
C3_OutputIsRankedPrefix ==
  mpc = "done" =>
    /\ \A j \in Tracks : HeaderOf(j) => Qualifies(j)
    /\ OutputRanked
    /\ \A j1, j2 \in Tracks :
          (Qualifies(j1) /\ ~HeaderOf(j1) /\ HeaderOf(j2)) => Before(j2, j1)
    /\ max_print = 0 => \A j \in Tracks : Qualifies(j) => HeaderOf(j)
    /\ (\E j \in Tracks : Qualifies(j) /\ ~HeaderOf(j)) => printed >= max_print

\* two Tracks of equal score, both listed, the earlier one first, and an
\* admitted Track of score 0 left out
C3_Witness ==
  /\ mpc = "done" /\ Len(Headers) = 2
  /\ Headers[1].score = Headers[2].score
  /\ PosOfHeader(1) < PosOfHeader(2)

\* the title boost of the claim, in hundredths
BoostOf(j) ==
  IF \E p \in Range(prop_list) : \E t \in {"title", "artist"} :
        t \in DOMAIN data[j] /\ contains_word(data[j][t], p)
  THEN 10 ELSE 0
LinesOf(j) ==
  IF IdAt(j) \in DOMAIN protFiles THEN protFiles[IdAt(j)] ELSE <<>>
RECURSIVE SumActive(_, _, _)
\* the sum over the lines 1..k whose key is an active property of the stored
\* score (in thousandths), or of the score rounded to 2 decimals (hundredths)
SumActive(lines, k, rounded) ==
  IF k = 0 THEN 0
  ELSE SumActive(lines, k - 1, rounded)
       + (IF lines[k].kind = "ok" /\ lines[k].key \in Range(prop_list)
          THEN (IF rounded THEN round2(lines[k].val) ELSE lines[k].val)
          ELSE 0)

\* C5 as stated: score = boost + the sum of the stored scores of the lines
\* whose key is active (compared in thousandths).
C5_ScoreIsBoostPlusLines ==
  Scored =>
    \A j \in Tracks :
      rawScore[j] * 10 =
        BoostOf(j) * 10
        + SumActive(LinesOf(j), Len(LinesOf(j)), FALSE)

\* C5 as amended: every line's score is rounded to 2 decimals before it is
\* added.
C5_ScoreIsBoostPlusRoundedLines ==
  Scored =>
    \A j \in Tracks :
      rawScore[j] =
        BoostOf(j)
        + SumActive(LinesOf(j), Len(LinesOf(j)), TRUE)

\* a Track with the boost and two active lines, one of them 0.675
C5_Witness ==
  /\ Scored
  /\ \E j \in Tracks :
       /\ BoostOf(j) = 10
       /\ \E k \in 1..Len(LinesOf(j)) :
            LinesOf(j)[k].val = 675 /\ LinesOf(j)[k].key \in Range(prop_list)
       /\ rawScore[j] = 138

\* the lines of an artifact that have a ':' and a score float() accepts
WellFormed(lines) == SelectSeq(lines, LAMBDA ln : ln.kind = "ok")

\* C16: the score of every Track is the boost plus what the well-formed
\* lines of its artifact give once the malformed ones are left out: a line
\* with an unparsable score or without ':' adds nothing, and the lines after
\* it and the other Tracks count as usual.
C16_MalformedLinesSkipped ==
  Scored =>
    \A j \in Tracks :
      LET ok == WellFormed(LinesOf(j))
      IN  rawScore[j] = BoostOf(j) + SumActive(ok, Len(ok), TRUE)

\* a Track whose artifact starts with an unparsable score under an active
\* key and a line without ':' got the 0.75 of the line after them, and
\* another Track got the score of its own artifact
C16_Witness ==
  /\ Scored
  /\ \E j \in Tracks :
       /\ Len(LinesOf(j)) >= 3
       /\ LinesOf(j)[1].kind = "bad"
       /\ LinesOf(j)[1].key \in Range(prop_list)
       /\ LinesOf(j)[2].kind = "nocolon"
       /\ LinesOf(j)[3].key \in Range(prop_list)
       /\ rawScore[j] = 75
  /\ \E j \in Tracks :
       /\ \A k \in 1..Len(LinesOf(j)) : LinesOf(j)[k].kind = "ok"
       /\ rawScore[j] >= 90

(***************************************************************************)
(* Recommender.py: parse_scenario_bits and build_clean_prototype           *)
(***************************************************************************)
MaxRigid == 2
MaxTyp == 3
MaxBits == 3

RECURSIVE LStrip(_)
LStrip(t) == IF Len(t) > 0 /\ t[1] = " " THEN LStrip(Tail(t)) ELSE t
RECURSIVE RStrip(_)
RStrip(t) ==
  IF Len(t) > 0 /\ t[Len(t)] = " " THEN RStrip(SubSeq(t, 1, Len(t) - 1))
  ELSE t
\* str.strip()
Strip(t) == RStrip(LStrip(t))

\* Recommender.py 30-34; p is a tuple whose first field is the name
take_name(p) == Strip(p.name)

\* f.result is [fmt, toks]: fmt "json" is a JSON array, "legacy" the quoted
\* list '1','0',...; a token is "1", "0" or "s" (a score such as 0.73)
IntOf(tok) == IF tok = "1" THEN 1 ELSE 0

RECURSIVE LegacyBits(_)
\* Recommender.py 54-61: only the parts equal to "1" or "0" are kept
LegacyBits(toks) ==
  IF Len(toks) = 0 THEN <<>>
  ELSE IF toks[1] \in {"0", "1"}
       THEN <<IntOf(toks[1])>> \o LegacyBits(Tail(toks))
       ELSE LegacyBits(Tail(toks))

\* Recommender.py 42-61
parse_scenario_bits(raw) ==
  IF raw.fmt = "json" /\ Len(raw.toks) > 0
  THEN [k \in 1..(Len(raw.toks) - 1) |-> IntOf(raw.toks[k])]
  ELSE IF raw.fmt = "json" THEN <<>>
  ELSE LegacyBits(raw.toks)

RECURSIVE Dedup(_, _)
\* Recommender.py 93-98: first occurrences of the non-empty names
Dedup(names, seen) ==
  IF Len(names) = 0 THEN <<>>
  ELSE IF names[1] # <<>> /\ names[1] \notin seen
       THEN <<names[1]>> \o Dedup(Tail(names), seen \cup {names[1]})
       ELSE Dedup(Tail(names), seen)

\* Recommender.py 72-83: names of the rigid entries, empty names skipped
RigidNames(f) ==
  SelectSeq([k \in 1..Len(f.attrs) |-> take_name(f.attrs[k])],
            LAMBDA n : n # <<>>)

\* mutant of ActiveTypical: the bits are ignored
ActiveTypicalAll(f, bits) ==
  SelectSeq([k \in 1..Len(f.tipical_attrs) |-> take_name(f.tipical_attrs[k])],
            LAMBDA n : n # <<>>)

\* Recommender.py 86-90: names of the typical entries whose bit is 1
ActiveTypical(f, bits) ==
  LET pick(k) == k <= Len(bits) /\ bits[k] = 1
      idx == SelectSeq([k \in 1..Len(f.tipical_attrs) |-> k], pick)
  IN  SelectSeq([k \in 1..Len(idx) |-> take_name(f.tipical_attrs[idx[k]])],
                LAMBDA n : n # <<>>)

\* Recommender.py 63-100: returns (clean, set(anchors))
build_clean_prototype(f) ==
  LET bits == parse_scenario_bits(f.result)
  IN  [clean |-> Dedup(RigidNames(f) \o ActiveTypical(f, bits), {}),
       anchors |-> Range(RigidNames(f))]

RigidPool == {[name |-> <<"r">>, head |-> TRUE],
              [name |-> <<"s">>, head |-> FALSE],
              [name |-> <<>>, head |-> TRUE]}
TypicalPool == {[name |-> <<"t">>, w |-> 900, head |-> FALSE],
                [name |-> <<"t">>, w |-> 700, head |-> TRUE],
                [name |-> <<"r">>, w |-> 800, head |-> TRUE],
                [name |-> <<"u">>, w |-> 600, head |-> TRUE]}
SeqsUpTo(S, n) == UNION {[1..m -> S] : m \in 0..n}
\* cocos_preprocessing.py 49-56: one line per typical property of each concept
TypicalLists ==
  {l \in SeqsUpTo(TypicalPool, MaxTyp) :
     \A p, q \in 1..Len(l) : p # q => l[p] # l[q]}

\* DataFromInput.py 23-45: a parsed profile
Profiles ==
  [attrs : SeqsUpTo(RigidPool, MaxRigid),
   tipical_attrs : TypicalLists,
   result : [fmt : {"json", "legacy"},
             toks : SeqsUpTo({"0", "1", "s"}, MaxBits)]]

BuildInit ==
  /\ profile \in Profiles
  /\ clean = <<>> /\ anchors = {} /\ bpc = "call"

\* Recommender.py 261: prop_list, anchors_set = build_clean_prototype(f)
BuildCleanPrototype ==
  /\ bpc = "call"
  /\ LET r == build_clean_prototype(profile)
     IN  clean' = r.clean /\ anchors' = r.anchors
  /\ bpc' = "done"
  /\ UNCHANGED <<profile, mvars, pvars, dvars, fvars>>

(***************************************************************************)
(* Claims about build_clean_prototype                                      *)
(***************************************************************************)
Bits == parse_scenario_bits(profile.result)
RigidNameSet == {profile.attrs[k].name : k \in 1..Len(profile.attrs)} \ {<<>>}
TypIdx == 1..Len(profile.tipical_attrs)
BitOn(k) == k <= Len(Bits) /\ Bits[k] = 1
TypName(k) == profile.tipical_attrs[k].name
NoDuplicates(s) == \A p, q \in 1..Len(s) : p # q => s[p] # s[q]
AnchorsAndActive ==
  /\ anchors = RigidNameSet
  /\ Range(clean) = anchors \cup {TypName(k) : k \in {q \in TypIdx : BitOn(q)}}
  /\ NoDuplicates(clean)

MIN_SCORE == 600
MAX_SCORE == 900

NoWord == [raw |-> "-", fail |-> FALSE]
NoVerb == "-"

\* the tokens word_tokenize yields in the model
RawTokens == {"I", "the", "12", "very", "Runs", "Sings", "Dog"}

\* str.lower().strip()
Lower(w) ==
  CASE w = "I" -> "i"
    [] w = "Runs" -> "runs"
    [] w = "Sings" -> "sings"
    [] w = "Dog" -> "dog"
    [] OTHER -> w

\* len(word)
WordLen(w) ==
  CASE w \in {"I", "i"} -> 1
    [] w \in {"12"} -> 2
    [] w \in {"the", "Dog", "dog", "run"} -> 3
    [] w \in {"Sings", "sings"} -> 5
    [] OTHER -> 4

\* prototyper.py 23-32, 385: the members of remove_words among the tokens
remove_words == {"the", "of", "and"}

\* TreeTagger on one lowercased word: at most one (lemma, pos) tag
TagsOf(w) ==
  CASE w = "i" -> <<[lemma |-> "i", pos |-> <<"P", "P">>]>>
    [] w = "the" -> <<[lemma |-> "the", pos |-> <<"D", "T">>]>>
    [] w = "12" -> <<[lemma |-> "@card@", pos |-> <<"C", "D">>]>>
    [] w = "very" -> <<[lemma |-> "very", pos |-> <<"R", "B">>]>>
    [] w = "runs" -> <<[lemma |-> "run", pos |-> <<"V", "B", "Z">>]>>
    [] w = "sings" -> <<[lemma |-> "sing", pos |-> <<"V", "B", "Z">>]>>
    [] w = "dog" -> <<[lemma |-> "dog", pos |-> <<"N", "N">>]>>
    [] OTHER -> <<>>

\* mutant of get_tags: the tags are returned whatever the tagger does
get_tagsIgnoreFailure(text) == TagsOf(text)

\* prototyper.py 141-149: [] when the tagger is absent or raises on the token
get_tags(text) ==
  IF TAGGER = "none" THEN <<>>
  ELSE IF word.fail THEN <<>>
  ELSE TagsOf(text)

\* prototyper.py 151-164
getLemma(w) ==
  IF w = "" THEN ""
  ELSE LET tags == get_tags(w)
       IN  IF tags # <<>>
           THEN (IF tags[1].lemma # "" THEN tags[1].lemma ELSE Lower(w))
           ELSE Lower(w)

\* prototyper.py 166-177; <<>> is the empty string
getTypeOfWord(w) ==
  IF w = "" THEN <<>>
  ELSE LET tags == get_tags(w)
       IN  IF tags # <<>> THEN tags[1].pos ELSE <<>>

\* str.startswith
StartsWith(t, pre) == Len(t) >= Len(pre) /\ SubSeq(t, 1, Len(pre)) = pre

\* prototyper.py 180-183
isNumber(w) == getTypeOfWord(w) \in {<<"C", "D">>, <<"N", "U", "M">>}
isVerb(w) ==
  IF getTypeOfWord(w) # <<>> THEN StartsWith(getTypeOfWord(w), <<"V", "B">>)
  ELSE FALSE
isAdverb(w) ==
  IF getTypeOfWord(w) # <<>> THEN StartsWith(getTypeOfWord(w), <<"R", "B">>)
  ELSE FALSE

(***************************************************************************)
(* prototyper.py: insertArtworkInDict and main                             *)
(***************************************************************************)
\* the artwork identifiers of the instances of the catalog, in order
Items == <<"t1", "t2">>

\* dict_prototypes is an insertion-ordered dict: a sequence of
\* [artwork, counts], counts a sequence of [w, n]
HasKey(d, a) == \E k \in 1..Len(d) : d[k].artwork = a
KeyIdx(d, a) == CHOOSE k \in 1..Len(d) : d[k].artwork = a
CountsOf(d, a) == IF HasKey(d, a) THEN d[KeyIdx(d, a)].counts ELSE <<>>

\* counts[lemma] = counts.get(lemma, 0) + 1
Incr(counts, lemma) ==
  IF \E k \in 1..Len(counts) : counts[k].w = lemma
  THEN [k \in 1..Len(counts) |->
          IF counts[k].w = lemma
          THEN [w |-> lemma, n |-> counts[k].n + 1] ELSE counts[k]]
  ELSE Append(counts, [w |-> lemma, n |-> 1])

\* prototyper.py 359-362: create the entry if needed, count the lemma
CountLemma(d, a, lemma) ==
  LET d2 == IF HasKey(d, a) THEN d
            ELSE Append(d, [artwork |-> a, counts |-> <<>>])
  IN  [k \in 1..Len(d2) |->
         IF d2[k].artwork = a
         THEN [artwork |-> a, counts |-> Incr(d2[k].counts, lemma)]
         ELSE d2[k]]

\* mutant of PassesFilter: the stopword test is dropped
PassesFilterNoStop(w) ==
  /\ WordLen(w) > 1
  /\ ~isNumber(w)
  /\ ~isAdverb(w)

\* prototyper.py 352: the filter of a lowercased token
PassesFilter(w) ==
  /\ WordLen(w) > 1
  /\ w \notin remove_words
  /\ ~isNumber(w)
  /\ ~isAdverb(w)

ProtoIdle ==
  /\ TAGGER = "none" /\ dict_prototypes = <<>> /\ item = 0
  /\ word = NoWord /\ verbo = NoVerb /\ n_items = 0 /\ written = <<>>
  /\ ppc = "idle" /\ ntok = 0 /\ trace = <<>>
  /\ raised = {}

\* prototyper.py 369-393: main up to the loop over the instances
ProtoInit ==
  /\ TAGGER \in {"none", "ready"}
  /\ dict_prototypes = <<>> /\ item = 1
  /\ word = NoWord /\ verbo = NoVerb /\ n_items = 0 /\ written = <<>>
  /\ ppc = "items" /\ ntok = 0
  /\ trace = [i \in 1..Len(Items) |-> <<>>]
  /\ raised = {}

\* mutant of StartItem: the buffer is not reset when an item is entered
StartItemKeepsVerb ==
  /\ ppc = "items" /\ item <= Len(Items)
  /\ ppc' = "tokens"
  /\ UNCHANGED <<TAGGER, dict_prototypes, item, word, verbo, n_items, written,
                 ntok, trace, raised>>
  /\ UNCHANGED <<mvars, bvars, dvars, fvars>>

\* prototyper.py 394-396, 310-344: insertArtworkInDict is entered
StartItem ==
  /\ ppc = "items" /\ item <= Len(Items)
  /\ verbo' = NoVerb
  /\ ppc' = "tokens"
  /\ UNCHANGED <<TAGGER, dict_prototypes, item, word, n_items, written, ntok, trace, raised>>
  /\ UNCHANGED <<mvars, bvars, dvars, fvars>>

\* the tokens on which a tagger that is ready may raise
FailTokens == {"Runs"}

\* prototyper.py 346: the next token of the description; fail says whether
\* the tagger raises on it
FetchToken ==
  /\ ppc = "tokens" /\ word = NoWord /\ ntok < MaxTokens
  /\ \E raw \in RawTokens, fail \in BOOLEAN :
       /\ fail => TAGGER = "ready" /\ raw \in FailTokens
       /\ word' = [raw |-> raw, fail |-> fail]
  /\ ntok' = ntok + 1
  /\ UNCHANGED <<TAGGER, dict_prototypes, item, verbo, n_items, written, ppc, trace, raised>>
  /\ UNCHANGED <<mvars, bvars, dvars, fvars>>

\* prototyper.py 359-360: dict_prototypes[artwork] = {} if it is missing
EnsureEntry(d, a) ==
  IF HasKey(d, a) THEN d ELSE Append(d, [artwork |-> a, counts |-> <<>>])

\* mutant of StoreVerb: a verb already pending is kept
StoreVerbIfEmpty(pending, lemma) == IF pending = NoVerb THEN lemma ELSE pending

\* prototyper.py 355: verbo = getLemma(word), whatever was pending
StoreVerb(pending, lemma) == lemma

\* mutant of AfterCredit: the credited verb stays pending
AfterCreditKept(pending) == pending

\* prototyper.py 367: verbo = None once the pending verb is credited
AfterCredit(pending) == NoVerb

\* prototyper.py 347-367: the body of the token loop
ProcessToken ==
  /\ ppc = "tokens" /\ word # NoWord
  /\ LET w == Lower(word.raw)
         a == Items[item]
     IN  IF w # "" /\ PassesFilter(w)
         THEN IF isVerb(w)
              THEN /\ verbo' = StoreVerb(verbo, getLemma(w))
                   /\ UNCHANGED dict_prototypes
              ELSE LET d1 == CountLemma(dict_prototypes, a, getLemma(w))
                   IN  IF verbo # NoVerb
                       THEN /\ dict_prototypes' = CountLemma(d1, a, verbo)
                            /\ verbo' = AfterCredit(verbo)
                       ELSE /\ dict_prototypes' = d1
                            /\ UNCHANGED verbo
         ELSE UNCHANGED <<dict_prototypes, verbo>>
  /\ trace' = [trace EXCEPT ![item] =
                 Append(@, [raw |-> word.raw, fail |-> word.fail,
                            upto |-> "done"])]
  /\ word' = NoWord
  /\ UNCHANGED <<TAGGER, item, n_items, written, ppc, ntok, raised>>
  /\ UNCHANGED <<mvars, bvars, dvars, fvars>>

\* mutant of RaiseInItem: the exception ends the loop over the instances
RaiseInItemAborts ==
  /\ ppc = "tokens" /\ word # NoWord
  /\ trace' = [trace EXCEPT ![item] =
                 Append(@, [raw |-> word.raw, fail |-> word.fail,
                            upto |-> "filter"])]
  /\ raised' = raised \cup {item}
  /\ word' = NoWord
  /\ item' = Len(Items) + 1
  /\ ppc' = "items"
  /\ UNCHANGED <<TAGGER, dict_prototypes, verbo, n_items, written,
                 ntok>>
  /\ UNCHANGED <<mvars, bvars, dvars, fvars>>

\* prototyper.py 398-399: an exception escapes insertArtworkInDict while a
\* token is processed (before line 352 or after line 360);
\* what the body did so far stays in dict_prototypes, the exception is
\* caught and the loop over the instances goes on
RaiseInItem ==
  /\ ppc = "tokens" /\ word # NoWord
  /\ LET w == Lower(word.raw)
         a == Items[item]
         content == w # "" /\ PassesFilter(w) /\ ~isVerb(w)
     IN  \E upto \in {"filter", "entry"} :
           /\ upto = "entry" => content
           /\ dict_prototypes' =
                IF upto = "entry" THEN EnsureEntry(dict_prototypes, a)
                ELSE dict_prototypes
           /\ trace' = [trace EXCEPT ![item] =
                          Append(@, [raw |-> word.raw, fail |-> word.fail,
                                     upto |-> upto])]
  /\ raised' = raised \cup {item}
  /\ word' = NoWord
  /\ item' = item + 1
  /\ ppc' = "items"
  /\ UNCHANGED <<TAGGER, verbo, n_items, written, ntok>>
  /\ UNCHANGED <<mvars, bvars, dvars, fvars>>

\* prototyper.py 346, 396-397: the tokens are exhausted, n_items += 1
EndItem ==
  /\ ppc = "tokens" /\ word = NoWord
  /\ n_items' = n_items + 1
  /\ item' = item + 1
  /\ ppc' = "items"
  /\ UNCHANGED <<TAGGER, dict_prototypes, word, verbo, written,
                 ntok, trace, raised>>
  /\ UNCHANGED <<mvars, bvars, dvars, fvars>>

RECURSIVE SumCounts(_)
\* sum(counts.values())
SumCounts(counts) ==
  IF Len(counts) = 0 THEN 0 ELSE counts[1].n + SumCounts(Tail(counts))

\* prototyper.py 409-413: the counts of minFreq and maxFreq (freq = cnt/tot)
MinCount(counts) ==
  CHOOSE m \in {counts[k].n : k \in 1..Len(counts)} :
    \A k \in 1..Len(counts) : m <= counts[k].n
MaxCountOf(counts) ==
  CHOOSE m \in {counts[k].n : k \in 1..Len(counts)} :
    \A k \in 1..Len(counts) : m >= counts[k].n

\* round(x, 3) of the rational num/den, in thousandths (den > 0); num/den
\* is never half-way between two thousandths when maxc - minc < 8
round3(num, den) == (2 * num + den) \div (2 * den)

\* mutant of ScoreOf: equal frequencies get MIN_SCORE
ScoreOfDegenerateMin(cnt, minc, maxc) ==
  IF maxc - minc = 0 THEN MIN_SCORE
  ELSE round3(MIN_SCORE * (maxc - minc) + (MAX_SCORE - MIN_SCORE) * (cnt - minc),
              maxc - minc)

\* mutant of ScoreOf: the frequency is scaled by maxFreq alone
ScoreOfNoMin(cnt, minc, maxc) ==
  IF maxc - minc = 0 THEN MAX_SCORE
  ELSE round3(MIN_SCORE * maxc + (MAX_SCORE - MIN_SCORE) * cnt, maxc)

\* prototyper.py 424-429: the score of a lemma, in thousandths;
\* (freq - minFreq) / rangeFreq = (cnt - minc) / (maxc - minc)
ScoreOf(cnt, minc, maxc) ==
  IF maxc - minc = 0 THEN MAX_SCORE
  ELSE round3(MIN_SCORE * (maxc - minc) + (MAX_SCORE - MIN_SCORE) * (cnt - minc),
              maxc - minc)

RECURSIVE InsertByCount(_, _)
InsertByCount(x, s) ==
  IF Len(s) = 0 THEN <<x>>
  ELSE IF s[1].n >= x.n THEN <<s[1]>> \o InsertByCount(x, Tail(s))
  ELSE <<x>> \o s

RECURSIVE SortByCount(_)
\* prototyper.py 423: sorted(counts.items(), key=lambda kv: kv[1], reverse=True)
SortByCount(counts) ==
  IF Len(counts) = 0 THEN <<>>
  ELSE InsertByCount(counts[Len(counts)],
                     SortByCount(SubSeq(counts, 1, Len(counts) - 1)))

\* prototyper.py 422-429: the lines of one artifact
ArtifactLines(counts) ==
  LET srt == SortByCount(counts)
  IN  [k \in 1..Len(srt) |->
         [word |-> srt[k].w,
          score |-> ScoreOf(srt[k].n, MinCount(counts), MaxCountOf(counts))]]

\* prototyper.py 402-430: the writing loop, one artifact per entry of
\* dict_prototypes whose counts are not empty, in the order of the dict
WritePrototypes ==
  /\ ppc = "items" /\ item > Len(Items)
  /\ LET kept == SelectSeq(dict_prototypes,
                           LAMBDA e : SumCounts(e.counts) # 0)
     IN  written' = [k \in 1..Len(kept) |->
                       [artwork |-> kept[k].artwork,
                        lines |-> ArtifactLines(kept[k].counts)]]
  /\ ppc' = "done"
  /\ UNCHANGED <<TAGGER, dict_prototypes, item, word, verbo, n_items,
                 ntok, trace, raised>>
  /\ UNCHANGED <<mvars, bvars, dvars, fvars>>

\* the counts an item can have accumulated: distinct lemmas, counts >= 1
Lemmas == {"a", "b", "c"}
CountDicts ==
  {c \in SeqsUpTo([w : Lemmas, n : 1..MaxCount], Cardinality(Lemmas)) :
     \A p, q \in 1..Len(c) : p # q => c[p].w # c[q].w}

\* prototyper.py 401: main after the loop over the instances, for one item
WriterInit ==
  /\ TAGGER \in {"none", "ready"}
  /\ \E c \in CountDicts :
       dict_prototypes = IF c = <<>> THEN <<>>
                         ELSE <<[artwork |-> Items[1], counts |-> c]>>
  /\ item = Len(Items) + 1
  /\ word = NoWord /\ verbo = NoVerb /\ n_items = Len(Items)
  /\ written = <<>> /\ ppc = "items" /\ ntok = 0
  /\ trace = [i \in 1..Len(Items) |-> <<>>]
  /\ raised = {}

(***************************************************************************)
(* Claims about the Prototype Builder                                      *)
(***************************************************************************)
\* the count of a lemma in an ordered dict of counts
CountIn(counts, l) ==
  IF \E k \in 1..Len(counts) : counts[k].w = l
  THEN counts[CHOOSE k \in 1..Len(counts) : counts[k].w = l].n
  ELSE 0
CountValues(counts) == {counts[k].n : k \in 1..Len(counts)}
AllEqual(counts) == Cardinality(CountValues(counts)) <= 1
IsMaxIn(counts, c) == \A v \in CountValues(counts) : v <= c
IsMinIn(counts, c) == \A v \in CountValues(counts) : v >= c
WrittenCounts(k) == CountsOf(dict_prototypes, written[k].artwork)
HasArtifact(a) == \E k \in 1..Len(written) : written[k].artwork = a

\* C6: in every written Prototype every counted lemma has a line whose score
\* lies in [0.6, 0.9]; when the counts are not all equal a lemma with the
\* maximal count scores 0.9 and one with the minimal count scores 0.6; when
\* all counts are equal every lemma scores 0.9.
C6_ScoresInRange ==
  \A k \in 1..Len(written) :
    LET lines == written[k].lines
        counts == WrittenCounts(k)
    IN  /\ {lines[j].word : j \in 1..Len(lines)}
             = {counts[q].w : q \in 1..Len(counts)}
        /\ Len(lines) = Len(counts)
        /\ \A j \in 1..Len(lines) :
             LET c == CountIn(counts, lines[j].word)
                 sc == lines[j].score
             IN  /\ 600 <= sc /\ sc <= 900
                 /\ AllEqual(counts) => sc = 900
                 /\ ~AllEqual(counts) /\ IsMaxIn(counts, c) => sc = 900
                 /\ ~AllEqual(counts) /\ IsMinIn(counts, c) => sc = 600

\* a Prototype with a top, a bottom and a score strictly between is written
C6_Witness ==
  \E k \in 1..Len(written) :
    LET lines == written[k].lines
    IN  /\ Len(lines) = 3
        /\ lines[1].score = 900
        /\ 600 < lines[2].score /\ lines[2].score < 900
        /\ lines[3].score = 600

\* C7: when the counts are not all equal, the score of a lemma is
\* 0.6 + 0.3 * (count - minCount) / (maxCount - minCount) rounded to three
\* decimals (within half a thousandth of the exact value), and the counts
\* {a:5, b:3, c:1} give a = 0.9, b = 0.75, c = 0.6.
C7_ScoreFormula ==
  \A k \in 1..Len(written) :
    LET lines == written[k].lines
        counts == WrittenCounts(k)
        minc == CHOOSE v \in CountValues(counts) : IsMinIn(counts, v)
        maxc == CHOOSE v \in CountValues(counts) : IsMaxIn(counts, v)
    IN  /\ ~AllEqual(counts) =>
             \A j \in 1..Len(lines) :
               LET c == CountIn(counts, lines[j].word)
                   exact == 600 * (maxc - minc) + 300 * (c - minc)
                   got == lines[j].score * (maxc - minc)
               IN  /\ 2 * (got - exact) <= maxc - minc
                   /\ 2 * (exact - got) <= maxc - minc
        /\ Range(counts) = {[w |-> "a", n |-> 5], [w |-> "b", n |-> 3],
                            [w |-> "c", n |-> 1]} =>
             lines = <<[word |-> "a", score |-> 900],
                       [word |-> "b", score |-> 750],
                       [word |-> "c", score |-> 600]>>

\* the Prototype of the counts {a:5, b:3, c:1} is written
C7_Witness ==
  \E k \in 1..Len(written) :
    /\ Range(WrittenCounts(k)) = {[w |-> "a", n |-> 5], [w |-> "b", n |-> 3],
                                  [w |-> "c", n |-> 1]}
    /\ written[k].lines[2] = [word |-> "b", score |-> 750]

\* what a processed token is, from the tagger's answer for it
Tagged(t) == TAGGER = "ready" /\ ~t.fail
Lw(t) == Lower(t.raw)
Survives(t) == WordLen(Lw(t)) > 1 /\ Lw(t) \notin remove_words
PosOfTok(t) ==
  IF Tagged(t) /\ TagsOf(Lw(t)) # <<>> THEN TagsOf(Lw(t))[1].pos ELSE <<>>
IsNumberTok(t) == PosOfTok(t) \in {<<"C", "D">>, <<"N", "U", "M">>}
IsAdverbTok(t) == StartsWith(PosOfTok(t), <<"R", "B">>)
FilteredOut(t) == ~Survives(t) \/ IsNumberTok(t) \/ IsAdverbTok(t)
IsVerbTok(t) == ~FilteredOut(t) /\ StartsWith(PosOfTok(t), <<"V", "B">>)
IsContentTok(t) == ~FilteredOut(t) /\ ~IsVerbTok(t)
LemmaOfTok(t) ==
  IF Tagged(t) /\ TagsOf(Lw(t)) # <<>> /\ TagsOf(Lw(t))[1].lemma # ""
  THEN TagsOf(Lw(t))[1].lemma ELSE Lw(t)
AllLemmas ==
  {Lower(r) : r \in RawTokens}
    \cup {TagsOf(Lower(r))[1].lemma : r \in RawTokens}

\* no token of item i was counted: each is filtered out, or a verb (with no
\* content word after it), or the processing raised before the count
NoLemmaCounted(i) ==
  \A k \in 1..Len(trace[i]) :
    ~(IsContentTok(trace[i][k]) /\ trace[i][k].upto = "done")

ActualCount(i, l) == CountIn(CountsOf(dict_prototypes, Items[i]), l)

View(i) ==
  [k \in 1..Len(trace[i]) |->
     [lemma |-> LemmaOfTok(trace[i][k]),
      counted |-> IsContentTok(trace[i][k]) /\ trace[i][k].upto = "done",
      verb |-> IsVerbTok(trace[i][k]) /\ trace[i][k].upto = "done",
      untagged |-> /\ trace[i][k].upto = "done"
                   /\ (TAGGER = "none" \/ trace[i][k].fail)
                   /\ Survives(trace[i][k]),
      lower |-> Lw(trace[i][k])]]

\* the lemmas that the dict or the tokens of item i mention
Mentioned(i, v) ==
  {v[k].lemma : k \in 1..Len(v)}
    \cup {CountsOf(dict_prototypes, Items[i])[k].w :
            k \in 1..Len(CountsOf(dict_prototypes, Items[i]))}

RECURSIVE Replay(_, _, _)
\* the counts that the tokens v of one item give on their own, each token
\* taken as far as its processing went
Replay(v, cnt, pend) ==
  IF v = <<>> THEN cnt
  ELSE LET t == Head(v)
           one == [cnt EXCEPT ![t.lemma] = @ + 1]
       IN  IF t.verb THEN Replay(Tail(v), cnt, t.lemma)
           ELSE IF t.counted
           THEN Replay(Tail(v),
                       IF pend # NoVerb THEN [one EXCEPT ![pend] = @ + 1]
                       ELSE one,
                       NoVerb)
           ELSE Replay(Tail(v), cnt, pend)
ExpectedCounts(i) == Replay(View(i), [l \in AllLemmas |-> 0], NoVerb)

\* C9: the counts of every item, one that raised included, are those of its
\* own tokens up to where its processing went; the loop moves past an item
\* that raised; at the end every item was visited and the artifact of each
\* item is written from its counts, or not written when they are empty.
C9_BatchRobust ==
  /\ \A i \in 1..Len(Items) :
       LET counts == CountsOf(dict_prototypes, Items[i])
       IN  /\ [l \in AllLemmas |-> CountIn(counts, l)] = ExpectedCounts(i)
           /\ \A k \in 1..Len(counts) : counts[k].w \in AllLemmas
  /\ \A i \in raised : item > i
  /\ ppc = "done" =>
       /\ n_items + Cardinality(raised) = Len(Items)
       /\ \A i \in 1..Len(Items) :
            LET counts == CountsOf(dict_prototypes, Items[i])
            IN  IF counts # <<>>
                THEN \E k \in 1..Len(written) :
                       /\ written[k].artwork = Items[i]
                       /\ {written[k].lines[j].word :
                             j \in 1..Len(written[k].lines)}
                            = {counts[j].w : j \in 1..Len(counts)}
                ELSE ~HasArtifact(Items[i])

\* the first item raised after a lemma was counted, its artifact is written
\* from the partial counts and the second item's artifact is written too
C9_Witness ==
  /\ ppc = "done" /\ raised = {1} /\ n_items = 1
  /\ Len(trace[1]) = 2 /\ trace[1][2].upto = "filter"
  /\ HasArtifact(Items[1])
  /\ HasArtifact(Items[2])

\* the verb at k is the pending one when a content word is next counted
Credited(v, k) ==
  /\ v[k].verb
  /\ \E j \in (k + 1)..Len(v) :
       /\ v[j].counted
       /\ \A m \in (k + 1)..(j - 1) : ~v[m].verb /\ ~v[m].counted
\* the verb at k is pending after the tokens processed so far
Pending(v, k) ==
  /\ v[k].verb
  /\ \A m \in (k + 1)..Len(v) : ~v[m].verb /\ ~v[m].counted
\* C17: the count of a lemma in an item is the number of content words
\* counted under it plus the number of its verb occurrences that were the
\* pending verb when the next content word was counted (each at most once);
\* between two tokens the buffer holds the last verb not yet followed by a
\* counted content word, whatever filtered tokens came after it, and is
\* empty otherwise.
C17_VerbCreditedOnce ==
  /\ \A i \in 1..Len(Items) :
       LET v == View(i)
           counts == CountsOf(dict_prototypes, Items[i])
       IN  \A l \in Mentioned(i, v) :
             CountIn(counts, l) =
               Cardinality({k \in 1..Len(v) : v[k].counted /\ v[k].lemma = l})
               + Cardinality({k \in 1..Len(v) :
                                Credited(v, k) /\ v[k].lemma = l})
  /\ (ppc = "tokens" /\ word = NoWord) =>
       LET v == View(item)
       IN  IF \E k \in 1..Len(v) : Pending(v, k)
           THEN \E k \in 1..Len(v) : Pending(v, k) /\ verbo = v[k].lemma
           ELSE verbo = NoVerb

\* a verb, a stopword and a content word: the verb is credited once with
\* the content word and the buffer is empty
C17_Witness ==
  /\ ppc = "tokens" /\ word = NoWord /\ item = 1
  /\ Len(trace[1]) = 3
  /\ View(1)[1].verb /\ ~Survives(trace[1][2]) /\ View(1)[3].counted
  /\ ActualCount(1, View(1)[1].lemma) = 1
  /\ ActualCount(1, View(1)[3].lemma) = 1
  /\ verbo = NoVerb

\* the verb at k was overwritten by a later verb before any content word
Overwritten(v, k) ==
  /\ v[k].verb
  /\ \E m \in (k + 1)..Len(v) :
       /\ v[m].verb
       /\ \A j \in (k + 1)..(m - 1) : ~v[j].counted

\* C18: a lemma that occurs in an item only as verbs overwritten by a later
\* verb (or in tokens that were discarded) gets no count at all, and the
\* last of several verbs before a counted content word has its lemma
\* counted.
C18_LastVerbOnly ==
  \A i \in 1..Len(Items) :
    LET v == View(i)
    IN  /\ \A l \in Mentioned(i, v) :
             (\A k \in 1..Len(v) :
                v[k].lemma = l => (Overwritten(v, k) \/ ~(v[k].counted \/ v[k].verb)))
               => ActualCount(i, l) = 0
        /\ \A k \in 1..Len(v) :
             (Credited(v, k) /\ \E m \in 1..(k - 1) : Overwritten(v, m))
               => ActualCount(i, v[k].lemma) >= 1

\* two different verbs and then a content word: only the second is counted
C18_Witness ==
  /\ Len(trace[1]) = 3
  /\ Overwritten(View(1), 1) /\ View(1)[2].verb /\ View(1)[3].counted
  /\ View(1)[1].lemma # View(1)[2].lemma
  /\ ActualCount(1, View(1)[1].lemma) = 0
  /\ ActualCount(1, View(1)[2].lemma) = 1

Degraded(t) == TAGGER = "none" \/ t.fail
\* the tokens of v processed without a tag, longer than one character and
\* not in remove_words, whose lowercased form is l
DegradedCount(v, l) ==
  Cardinality({k \in 1..Len(v) : v[k].untagged /\ v[k].lower = l})

\* C10: every token processed without a tag that is longer than one
\* character and not in remove_words is counted under its lowercased form
\* (and in an item processed wholly without tags nothing else is counted);
\* such a token never leaves a pending verb, and without a tagger no verb
\* is ever pending.
C10_DegradedTokensCounted ==
  /\ \A i \in 1..Len(Items) :
       LET v == View(i)
           counts == CountsOf(dict_prototypes, Items[i])
       IN  /\ \A k \in 1..Len(v) :
                CountIn(counts, v[k].lower) >= DegradedCount(v, v[k].lower)
           /\ (\A k \in 1..Len(trace[i]) :
                 Degraded(trace[i][k]) /\ trace[i][k].upto = "done")
                => \A l \in Mentioned(i, v) \cup {v[k].lower : k \in 1..Len(v)} :
                     CountIn(counts, l) = DegradedCount(v, l)
  /\ TAGGER = "none" => verbo = NoVerb
  /\ (/\ ppc = "tokens" /\ word = NoWord /\ trace[item] # <<>>
      /\ Degraded(trace[item][Len(trace[item])])
      /\ Survives(trace[item][Len(trace[item])]))
       => verbo = NoVerb

\* the tagger raised on "Runs" and answered on "12" in the first item:
\* "runs" is counted as a content word, "12" is discarded as a number
C10_Witness ==
  /\ TAGGER = "ready"
  /\ \E k \in 1..Len(trace[1]) :
       trace[1][k] = [raw |-> "Runs", fail |-> TRUE, upto |-> "done"]
  /\ \E k \in 1..Len(trace[1]) :
       trace[1][k] = [raw |-> "12", fail |-> FALSE, upto |-> "done"]
  /\ ActualCount(1, "runs") = 1
  /\ ActualCount(1, "12") = 0
  /\ verbo = NoVerb

\* C27: the buffer is empty when the first token of an item is reached, and
\* the lemma of a verb still pending when an item was left has in that item
\* the count of its other occurrences only, and in every later item the
\* count that the tokens of that item give on their own.
C27_PendingVerbScoped ==
  /\ (ppc = "tokens" /\ trace[item] = <<>>) => verbo = NoVerb
  /\ \A i \in 1..Len(Items) :
       LET v == View(i)
       IN  \A k \in 1..Len(v) :
             (item > i /\ Pending(v, k)) =>
               /\ ActualCount(i, v[k].lemma) =
                    Cardinality({j \in 1..Len(v) :
                                   v[j].counted /\ v[j].lemma = v[k].lemma})
                    + Cardinality({j \in 1..Len(v) :
                                     Credited(v, j) /\ v[j].lemma = v[k].lemma})
               /\ \A n \in (i + 1)..Len(Items) :
                    ActualCount(n, v[k].lemma) = ExpectedCounts(n)[v[k].lemma]

\* the first item ended on a verb, the second item counted a content word:
\* the verb has no count in either item
C27_Witness ==
  /\ item > 2 /\ raised = {}
  /\ Len(trace[1]) >= 1 /\ Pending(View(1), Len(trace[1]))
  /\ Len(trace[2]) >= 1 /\ View(2)[1].counted
  /\ ActualCount(1, View(1)[Len(trace[1])].lemma) = 0
  /\ ActualCount(2, View(1)[Len(trace[1])].lemma) = 0
  /\ ActualCount(2, View(2)[1].lemma) = 1

(***************************************************************************)
(* BuildTypicalRigid.py: the Distiller                                     *)
(***************************************************************************)
\* the macro-genres of the model, in the order of the list
MACRO_GENRES == <<"rap", "rock", "pop">>

\* BuildTypicalRigid.py 14-23, 136: SUB2MACRO.get(s2, s2)
Item(name, chars, v) == [name |-> name, k |-> chars, v |-> v]
\* BuildTypicalRigid.py 14-23: the items of the dict; k spells the key
SUB2MACRO_items ==
  { Item("hiphop", <<"h", "i", "p", "h", "o", "p">>, "rap"),
    Item("rap", <<"r", "a", "p">>, "rap"),
    Item("drill", <<"d", "r", "i", "l", "l">>, "rap"),
    Item("rock", <<"r", "o", "c", "k">>, "rock"),
    Item("pop", <<"p", "o", "p">>, "pop") }

\* BuildTypicalRigid.py 136: SUB2MACRO.get(s2, s2)
SUB2MACRO(s2) ==
  IF \E it \in SUB2MACRO_items : it.name = s2
  THEN (CHOOSE it \in SUB2MACRO_items : it.name = s2).v
  ELSE s2

COMMON_GLOBAL == {"catchy_chorus"}
STOP_EN == {"the"}
DOMAIN_WHITELIST ==
  {"catchy_chorus", "flow", "riff", "drill", "hiphop", "rock", "pop"}

DISTINCTIVE_MAX_GENRES == 2

\* thousandths; MIN_W + (MAX_W - MIN_W) / 2 is the weight of the equal case
MIN_W == 600
MAX_W == 950
EQUAL_W == 800

\* BuildTypicalRigid.py 109-110
norm_token(t) ==
  CASE t = "Flow" -> "flow"
    [] t = "Money" -> "money"
    [] t = "The" -> "the"
    [] t = "_dark_" -> "dark"
    [] t = "Rock" -> "rock"
    [] t = "_drill_" -> "drill"
    [] OTHER -> t

\* BuildTypicalRigid.py 114-115
is_stop_en(t) == t \in STOP_EN /\ t \notin DOMAIN_WHITELIST

\* BuildTypicalRigid.py 123-126; e.lyrics holds the matches of TOKEN_RE,
\* which have three characters or more and keep them through norm_token
extract_words(lyrics) ==
  SelectSeq([k \in 1..Len(lyrics) |-> norm_token(lyrics[k])],
            LAMBDA t : ~is_stop_en(t))

\* str.lower() on the characters of the model's texts
LowerCh(c) ==
  CASE c = "P" -> "p"
    [] c = "R" -> "r"
    [] c = "W" -> "w"
    [] OTHER -> c
LowerText(t) == [k \in 1..Len(t) |-> LowerCh(t[k])]

\* BuildTypicalRigid.py 138: title, album and artist joined by spaces and
\* lowercased
Blob(e) == LowerText(Join(<<e.title, e.album, e.artist>>))

\* BuildTypicalRigid.py 139-140: the values of the keys that occur in blob
BlobGenres(blob) ==
  {it.v : it \in {x \in SUB2MACRO_items : IsSubstr(x.k, blob)}}

\* mutant of choose_macrogenres: the texts are not scanned
choose_macrogenresLabelsOnly(e) ==
  LET out == {SUB2MACRO(norm_token(e.subgenres[k])) :
                k \in 1..Len(e.subgenres)}
               \cup {SUB2MACRO(norm_token(e.tags[k])) : k \in 1..Len(e.tags)}
  IN  {g \in Range(MACRO_GENRES) : g \in out}

\* BuildTypicalRigid.py 133-142, as a set
choose_macrogenres(e) ==
  LET out == {SUB2MACRO(norm_token(e.subgenres[k])) :
                k \in 1..Len(e.subgenres)}
               \cup {SUB2MACRO(norm_token(e.tags[k])) : k \in 1..Len(e.tags)}
               \cup BlobGenres(Blob(e))
  IN  {g \in Range(MACRO_GENRES) : g \in out}

\* BuildTypicalRigid.py 145, in thousandths
clamp(x) == IF x < MIN_W THEN MIN_W ELSE IF x > MAX_W THEN MAX_W ELSE x

\* the value of a Counter for a key, 0 when the key is missing
CounterGet(c, key) ==
  IF \E j \in 1..Len(c) : c[j].k = key
  THEN c[CHOOSE j \in 1..Len(c) : c[j].k = key].n
  ELSE 0
\* Counter.get(key, default)
CounterGetOr(c, key, default) ==
  IF \E j \in 1..Len(c) : c[j].k = key THEN CounterGet(c, key) ELSE default
CounterKeys(c) == {c[j].k : j \in 1..Len(c)}

\* c[key] += amount
CounterAdd(c, key, amount) ==
  IF \E j \in 1..Len(c) : c[j].k = key
  THEN [j \in 1..Len(c) |->
          IF c[j].k = key THEN [k |-> key, n |-> c[j].n + amount] ELSE c[j]]
  ELSE Append(c, [k |-> key, n |-> amount])

RECURSIVE CounterUpdate(_, _)
\* Counter.update(keys), keys in the order the set is iterated
CounterUpdate(c, keys) ==
  IF Len(keys) = 0 THEN c
  ELSE CounterUpdate(CounterAdd(c, keys[1], 1), Tail(keys))

\* the orders in which a set can be iterated
Orders(S) ==
  {o \in [1..Cardinality(S) -> S] :
     \A p, q \in 1..Cardinality(S) : p # q => o[p] # o[q]}

\* mutant of SetOrders: the list is counted as it is, repetitions included
ListOrder(l) == {l}

\* BuildTypicalRigid.py 222-223: set(l), iterated in some order
SetOrders(l) == Orders(Range(l))

\* BuildTypicalRigid.py 215
n_docs_g(g) == Len(songs_by_genre[g])

\* BuildTypicalRigid.py 237-239, 265: ALPHA + (1 - ALPHA) / log(2 + gcount),
\* in ten-thousandths
IdfFactor(gcount) ==
  CASE gcount = 1 -> 9506
    [] gcount = 2 -> 8467
    [] OTHER -> 7917

\* mutant of AtLeast: a fraction equal to the threshold does not pass
AtLeastStrict(df, n, thr) == df * 100 > thr * n

\* v >= thr for v = df / n and thr in percent
AtLeast(df, n, thr) == df * 100 >= thr * n

\* mutant of frac_word: min_df_words is ignored
frac_wordAll(g) == word_df_by_g[g]

\* mutant of frac_word: min_df_words is waived for the whitelisted words
frac_wordWhitelisted(g) ==
  SelectSeq(word_df_by_g[g],
            LAMBDA e : e.n >= args.min_df_words \/ e.k \in DOMAIN_WHITELIST)

\* BuildTypicalRigid.py 250-252
frac_tag(g) == tag_df_by_g[g]
frac_word(g) ==
  SelectSeq(word_df_by_g[g], LAMBDA e : e.n >= args.min_df_words)

\* BuildTypicalRigid.py 256-258
typical_tags_raw(g) ==
  SelectSeq(frac_tag(g),
            LAMBDA e : AtLeast(e.n, n_docs_g(g), args.typical_thr_tags))
typical_words_raw(g) ==
  SelectSeq(frac_word(g),
            LAMBDA e : /\ AtLeast(e.n, n_docs_g(g), args.typical_thr_words)
                       /\ ~(e.k \in COMMON_GLOBAL
                            /\ e.k \notin DOMAIN_WHITELIST))

RECURSIVE AddScores(_, _, _)
\* BuildTypicalRigid.py 264-269: scores[p] += w for the entries, where w is
\* df * IdfFactor * mult (the scores of one genre share the factor 1/n)
AddScores(scores, entries, mult) ==
  IF Len(entries) = 0 THEN scores
  ELSE AddScores(
         CounterAdd(scores, entries[1].k,
                    entries[1].n
                      * IdfFactor(CounterGet(global_genre_count, entries[1].k))
                      * mult),
         Tail(entries), mult)

\* mutant of Scores: the boost needs genre_count < DISTINCTIVE_MAX_GENRES
ScoresBoostBelow(g) ==
  LET raw == AddScores(AddScores(<<>>, typical_tags_raw(g), 5),
                       typical_words_raw(g), 4)
  IN  [j \in 1..Len(raw) |->
         [k |-> raw[j].k,
          n |-> raw[j].n
                 * (IF raw[j].k \in COMMON_GLOBAL THEN 2 ELSE 5)
                 * (IF CounterGetOr(global_genre_count, raw[j].k, 99)
                         < DISTINCTIVE_MAX_GENRES
                    THEN 6 ELSE 5)]]

\* BuildTypicalRigid.py 263-278: 5 is factor 1, 4 is 0.8, 2 is
\* COMMON_PENALTY, 6 is DISTINCTIVE_BOOST
Scores(g) ==
  LET raw == AddScores(AddScores(<<>>, typical_tags_raw(g), 5),
                       typical_words_raw(g), 4)
  IN  [j \in 1..Len(raw) |->
         [k |-> raw[j].k,
          n |-> raw[j].n
                 * (IF raw[j].k \in COMMON_GLOBAL THEN 2 ELSE 5)
                 * (IF CounterGetOr(global_genre_count, raw[j].k, 99)
                         <= DISTINCTIVE_MAX_GENRES
                    THEN 6 ELSE 5)]]

RECURSIVE InsertByValue(_, _)
InsertByValue(x, s) ==
  IF Len(s) = 0 THEN <<x>>
  ELSE IF s[1].n >= x.n THEN <<s[1]>> \o InsertByValue(x, Tail(s))
  ELSE <<x>> \o s

RECURSIVE SortByValue(_)
\* sorted(items, key=value, reverse=True): equal values keep their order
SortByValue(c) ==
  IF Len(c) = 0 THEN <<>>
  ELSE InsertByValue(c[Len(c)], SortByValue(SubSeq(c, 1, Len(c) - 1)))

Min2(a, b) == IF a < b THEN a ELSE b

\* mutant of most_common: the limit is ignored
most_commonAll(c, n) == SortByValue(c)

\* BuildTypicalRigid.py 281: Counter.most_common(n), n >= 0
most_common(c, n) == SubSeq(SortByValue(c), 1, Min2(n, Len(c)))

\* round((x / d) * (MAX_W - MIN_W)) for 0 <= x <= d, the product taken in two
\* steps so that every intermediate value stays inside 32 bits
Interpolate(x, d) ==
  LET tenth == (MAX_W - MIN_W) \div 10
  IN  tenth * ((x * 10) \div d) + round3(tenth * ((x * 10) % d), d)

\* mutant of Weights: the equal case gets MIN_W
WeightsEqualMin(top) ==
  LET vals == {top[j].n : j \in 1..Len(top)}
      mn == CHOOSE v \in vals : \A u \in vals : v <= u
      mx == CHOOSE v \in vals : \A u \in vals : v >= u
  IN  [j \in 1..Len(top) |->
         [k |-> top[j].k,
          w |-> IF mx = mn THEN MIN_W
                ELSE clamp(MIN_W + Interpolate(top[j].n - mn, mx - mn))]]

\* BuildTypicalRigid.py 284-289: the weights of the kept properties
Weights(top) ==
  LET vals == {top[j].n : j \in 1..Len(top)}
      mn == CHOOSE v \in vals : \A u \in vals : v <= u
      mx == CHOOSE v \in vals : \A u \in vals : v >= u
  IN  [j \in 1..Len(top) |->
         [k |-> top[j].k,
          w |-> IF mx = mn THEN EQUAL_W
                ELSE clamp(MIN_W + Interpolate(top[j].n - mn, mx - mn))]]

\* the property names of the model in the order of Python's str comparison
NameOrder ==
  <<"catchy_chorus", "dark", "drill", "flow", "hiphop", "jazz", "money",
    "pop", "rap", "riff", "rock", "the">>
NameRank(name) == CHOOSE j \in 1..Len(NameOrder) : NameOrder[j] = name

RECURSIVE InsertLine(_, _)
\* order of the key (-weight, name)
InsertLine(x, s) ==
  IF Len(s) = 0 THEN <<x>>
  ELSE IF s[1].w > x.w \/ (s[1].w = x.w /\ NameRank(s[1].k) <= NameRank(x.k))
  THEN <<s[1]>> \o InsertLine(x, Tail(s))
  ELSE <<x>> \o s

RECURSIVE SortLines(_)
\* BuildTypicalRigid.py 304: sorted(top_items.items(), key=(-w, name))
SortLines(ls) ==
  IF Len(ls) = 0 THEN <<>>
  ELSE InsertLine(ls[Len(ls)], SortLines(SubSeq(ls, 1, Len(ls) - 1)))

\* BuildTypicalRigid.py 281-289, 303-305: the lines of typical/<g>.txt
TypicalLines(g) ==
  LET top_items == most_common(Scores(g), args.topk_typical)
  IN  IF Len(top_items) = 0 THEN <<>> ELSE SortLines(Weights(top_items))

RECURSIVE DedupFirst(_, _)
\* list(dict.fromkeys(names))
DedupFirst(names, seen) ==
  IF Len(names) = 0 THEN <<>>
  ELSE IF names[1] \in seen THEN DedupFirst(Tail(names), seen)
  ELSE <<names[1]>> \o DedupFirst(Tail(names), seen \cup {names[1]})

\* mutant of RigidCandidates: the words come first
RigidCandidatesWordsFirst(g) ==
  LET tg == SelectSeq(frac_tag(g),
                      LAMBDA e : AtLeast(e.n, n_docs_g(g), args.rigid_thr_tags))
      wd == SelectSeq(frac_word(g),
                      LAMBDA e : /\ AtLeast(e.n, n_docs_g(g),
                                            args.rigid_thr_words)
                                 /\ e.k \in DOMAIN_WHITELIST)
  IN  [j \in 1..Len(wd) |-> wd[j].k] \o [j \in 1..Len(tg) |-> tg[j].k]

\* BuildTypicalRigid.py 296-297: the candidates, tags first
RigidCandidates(g) ==
  LET tg == SelectSeq(frac_tag(g),
                      LAMBDA e : AtLeast(e.n, n_docs_g(g), args.rigid_thr_tags))
      wd == SelectSeq(frac_word(g),
                      LAMBDA e : /\ AtLeast(e.n, n_docs_g(g),
                                            args.rigid_thr_words)
                                 /\ e.k \in DOMAIN_WHITELIST)
  IN  [j \in 1..Len(tg) |-> tg[j].k] \o [j \in 1..Len(wd) |-> wd[j].k]

\* BuildTypicalRigid.py 295-298, 306-307: the lines of rigid/<g>.txt
RigidLines(g) ==
  LET rigid == DedupFirst(RigidCandidates(g), {})
  IN  SubSeq(rigid, 1, Min2(args.max_rigid, Len(rigid)))

\* the entries of the model: subgenres, tags, title and the matches of
\* TOKEN_RE in the lyrics
Entry(sub, tags, title, lyrics) ==
  [subgenres |-> sub, tags |-> tags, title |-> title, album |-> <<>>,
   artist |-> <<>>, lyrics |-> lyrics]
PopRocks == <<"P", "o", "p", " ", "r", "o", "c", "k", "s">>
EntryPool ==
  { Entry(<<"rap">>, <<"Flow", "dark">>, <<>>, <<"flow", "Money">>),
    Entry(<<"hiphop">>, <<"flow", "catchy_chorus">>, <<>>,
          <<"money", "The", "Money">>),
    Entry(<<"rock">>, <<"riff", "_dark_", "dark">>, <<>>, <<"flow", "riff">>),
    Entry(<<>>, <<"pop", "rap">>, <<>>, <<>>),
    Entry(<<"jazz">>, <<"flow">>, PopRocks, <<"riff">>) }
DistillCatalogs == UNION {[1..n -> EntryPool] : n \in 0..MaxSongs}

\* BuildTypicalRigid.py 179-193: thresholds in percent
Args(tt, rt, tw, rw, mdf, topk, mr) ==
  [typical_thr_tags |-> tt, rigid_thr_tags |-> rt, typical_thr_words |-> tw,
   rigid_thr_words |-> rw, min_df_words |-> mdf, topk_typical |-> topk,
   max_rigid |-> mr]
ArgsPool ==
  { Args(85, 98, 85, 98, 1, 3, 3),
    Args(50, 100, 50, 100, 2, 1, 1),
    Args(0, 0, 0, 0, 1, 2, 2),
    Args(100, 50, 100, 50, 1, 0, 0),
    Args(50, 50, 50, 0, 2, 2, 3) }

\* entries for the partition alone: labels that map, labels that do not,
\* texts that hold a key inside a longer word, and a key split over two fields
LabelledEntry(sub, tags, texts) ==
  [subgenres |-> sub, tags |-> tags, title |-> texts[1], album |-> <<>>,
   artist |-> texts[2], lyrics |-> <<>>]
AssignPool ==
  {LabelledEntry(sub, tags, texts) :
     sub \in {<<>>, <<"hiphop">>, <<"jazz">>},
     tags \in {<<>>, <<"pop", "_drill_">>, <<"Rock", "dark">>},
     texts \in { <<<<>>, <<>>>>,
                 <<PopRocks, <<>>>>,
                 <<<<"j", "a", "z", "z">>, <<"W", "r", "a", "p">>>>,
                 <<<<"p", "o">>, <<"p">>>> }}
AssignCatalogs == UNION {[1..n -> AssignPool] : n \in 1..MaxAssign}

GenreIdx == 1..Len(MACRO_GENRES)
NoCounters == [g \in Range(MACRO_GENRES) |-> <<>>]
NoOut == [typ |-> NoCounters, rig |-> NoCounters]

DistillIdle ==
  /\ catalog = <<>>
  /\ args = Args(0, 0, 0, 0, 0, 0, 0)
  /\ songs_by_genre = NoCounters
  /\ tag_df_by_g = NoCounters
  /\ word_df_by_g = NoCounters
  /\ global_genre_count = <<>>
  /\ typOut = NoCounters
  /\ rigOut = NoCounters
  /\ dpc = "idle"
  /\ dg = 1
  /\ ds = 1
  /\ runNo = 1
  /\ prevOut = NoOut

\* BuildTypicalRigid.py 203-204, 213-214: the state before the partition
DistillStart ==
  /\ songs_by_genre = NoCounters
  /\ tag_df_by_g = NoCounters
  /\ word_df_by_g = NoCounters
  /\ global_genre_count = <<>>
  /\ typOut = NoCounters
  /\ rigOut = NoCounters
  /\ dpc = "partition"
  /\ dg = 1
  /\ ds = 1

DistillInit ==
  /\ catalog \in DistillCatalogs
  /\ args \in ArgsPool
  /\ DistillStart
  /\ runNo = 1
  /\ prevOut = NoOut

\* BuildTypicalRigid.py 207-210: every genre gets its entries in the order of
\* the catalog
Partition ==
  /\ dpc = "partition"
  /\ songs_by_genre' =
       [g \in Range(MACRO_GENRES) |->
          SelectSeq([i \in 1..Len(catalog) |-> i],
                    LAMBDA i : g \in choose_macrogenres(catalog[i]))]
  /\ dpc' = "df"
  /\ dg' = 1
  /\ ds' = 1
  /\ UNCHANGED <<catalog, args, tag_df_by_g, word_df_by_g, global_genre_count,
                 typOut, rigOut, runNo, prevOut>>
  /\ UNCHANGED <<mvars, bvars, pvars, fvars>>

\* BuildTypicalRigid.py 221-225: one entry of one genre; the two sets are
\* iterated in an order that the hash seed of the process decides
CountSong ==
  /\ dpc = "df"
  /\ dg \in GenreIdx
  /\ ds <= Len(songs_by_genre[MACRO_GENRES[dg]])
  /\ LET g == MACRO_GENRES[dg]
         e == catalog[songs_by_genre[g][ds]]
         tags == [k \in 1..Len(e.tags) |-> norm_token(e.tags[k])]
         words == extract_words(e.lyrics)
     IN  \E to \in SetOrders(tags), wo \in SetOrders(words) :
           /\ tag_df_by_g' =
                [tag_df_by_g EXCEPT ![g] = CounterUpdate(@, to)]
           /\ word_df_by_g' =
                [word_df_by_g EXCEPT ![g] = CounterUpdate(@, wo)]
  /\ ds' = ds + 1
  /\ UNCHANGED <<catalog, args, songs_by_genre, global_genre_count, typOut,
                 rigOut, dpc, dg, runNo, prevOut>>
  /\ UNCHANGED <<mvars, bvars, pvars, fvars>>

\* BuildTypicalRigid.py 220: the entries of the genre are exhausted
NextGenre ==
  /\ dpc = "df"
  /\ dg \in GenreIdx
  /\ ds > Len(songs_by_genre[MACRO_GENRES[dg]])
  /\ dg' = dg + 1
  /\ ds' = 1
  /\ UNCHANGED <<catalog, args, songs_by_genre, tag_df_by_g, word_df_by_g,
                 global_genre_count, typOut, rigOut, dpc, runNo, prevOut>>
  /\ UNCHANGED <<mvars, bvars, pvars, fvars>>

RECURSIVE CountProps(_, _)
\* BuildTypicalRigid.py 229-232; only lookups are made in the result, its
\* order is the one of NameOrder
CountProps(names, c) ==
  IF Len(names) = 0 THEN c
  ELSE LET n == Cardinality({g \in Range(MACRO_GENRES) :
                               names[1] \in CounterKeys(tag_df_by_g[g])
                                            \cup CounterKeys(word_df_by_g[g])})
       IN  CountProps(Tail(names),
                      IF n = 0 THEN c ELSE CounterAdd(c, names[1], n))

CountGenres ==
  /\ dpc = "df"
  /\ dg > Len(MACRO_GENRES)
  /\ global_genre_count' = CountProps(NameOrder, <<>>)
  /\ dpc' = "distill"
  /\ dg' = 1
  /\ UNCHANGED <<catalog, args, songs_by_genre, tag_df_by_g, word_df_by_g,
                 typOut, rigOut, ds, runNo, prevOut>>
  /\ UNCHANGED <<mvars, bvars, pvars, fvars>>

\* mutant of AfterEmptyGenre: break instead of continue
AfterEmptyGenreBreak(i) == Len(MACRO_GENRES) + 1

\* BuildTypicalRigid.py 247: continue
AfterEmptyGenre(i) == i + 1

\* BuildTypicalRigid.py 244-247
DistillEmptyGenre ==
  /\ dpc = "distill"
  /\ dg \in GenreIdx
  /\ n_docs_g(MACRO_GENRES[dg]) = 0
  /\ typOut' = [typOut EXCEPT ![MACRO_GENRES[dg]] = <<>>]
  /\ rigOut' = [rigOut EXCEPT ![MACRO_GENRES[dg]] = <<>>]
  /\ dg' = AfterEmptyGenre(dg)
  /\ UNCHANGED <<catalog, args, songs_by_genre, tag_df_by_g, word_df_by_g,
                 global_genre_count, dpc, ds, runNo, prevOut>>
  /\ UNCHANGED <<mvars, bvars, pvars, fvars>>

\* BuildTypicalRigid.py 250-307
DistillGenre ==
  /\ dpc = "distill"
  /\ dg \in GenreIdx
  /\ n_docs_g(MACRO_GENRES[dg]) # 0
  /\ typOut' = [typOut EXCEPT ![MACRO_GENRES[dg]] =
                                 TypicalLines(MACRO_GENRES[dg])]
  /\ rigOut' = [rigOut EXCEPT ![MACRO_GENRES[dg]] =
                                 RigidLines(MACRO_GENRES[dg])]
  /\ dg' = dg + 1
  /\ UNCHANGED <<catalog, args, songs_by_genre, tag_df_by_g, word_df_by_g,
                 global_genre_count, dpc, ds, runNo, prevOut>>
  /\ UNCHANGED <<mvars, bvars, pvars, fvars>>

\* BuildTypicalRigid.py 309
DistillDone ==
  /\ dpc = "distill"
  /\ dg > Len(MACRO_GENRES)
  /\ dpc' = "done"
  /\ UNCHANGED <<catalog, args, songs_by_genre, tag_df_by_g, word_df_by_g,
                 global_genre_count, typOut, rigOut, dg, ds, runNo, prevOut>>
  /\ UNCHANGED <<mvars, bvars, pvars, fvars>>

\* a second run of the program on the same input with the same parameters;
\* the artifacts of the first run are kept aside
Rerun ==
  /\ dpc = "done"
  /\ runNo = 1
  /\ prevOut' = [typ |-> typOut, rig |-> rigOut]
  /\ runNo' = 2
  /\ songs_by_genre' = NoCounters
  /\ tag_df_by_g' = NoCounters
  /\ word_df_by_g' = NoCounters
  /\ global_genre_count' = <<>>
  /\ typOut' = NoCounters
  /\ rigOut' = NoCounters
  /\ dpc' = "partition"
  /\ dg' = 1
  /\ ds' = 1
  /\ UNCHANGED <<catalog, args>>
  /\ UNCHANGED <<mvars, bvars, pvars, fvars>>

(***************************************************************************)
(* Claims about the Distiller                                              *)
(***************************************************************************)
GIdx(g) == CHOOSE i \in GenreIdx : MACRO_GENRES[i] = g
TypNames(g) == [j \in 1..Len(typOut[g]) |-> typOut[g][j].k]
NoRepeat(names) ==
  \A i, j \in 1..Len(names) : i # j => names[i] # names[j]
AllProps == Range(NameOrder)
\* the entries of the catalog that the assignment rule gives to genre g
AssignedTo(g) ==
  {i \in 1..Len(catalog) : g \in choose_macrogenres(catalog[i])}
\* the Tracks of genre g, as the partition listed them
TracksOf(g) == Range(songs_by_genre[g])
TagsOfTrack(i) ==
  {norm_token(catalog[i].tags[k]) : k \in 1..Len(catalog[i].tags)}
WordsOfTrack(i) == Range(extract_words(catalog[i].lyrics))
TagDF(g, p) == Cardinality({i \in TracksOf(g) : p \in TagsOfTrack(i)})
WordDF(g, p) == Cardinality({i \in TracksOf(g) : p \in WordsOfTrack(i)})
NTracks(g) == Len(songs_by_genre[g])


\* C11: for every catalog and all non-negative topk_typical and max_rigid,
\* the typical output of each genre has at most topk_typical entries, its
\* rigid output has at most max_rigid entries, and no property name is
\* repeated inside either output.
C11_SizeBounds ==
  \A g \in Range(MACRO_GENRES) :
    /\ Len(typOut[g]) <= args.topk_typical
    /\ Len(rigOut[g]) <= args.max_rigid
    /\ NoRepeat(TypNames(g))
    /\ NoRepeat(rigOut[g])

\* a finished run where both cuts removed something and the rigid candidates
\* held a name twice
C11_Witness ==
  /\ dpc = "done"
  /\ \E g \in Range(MACRO_GENRES) :
       /\ args.topk_typical >= 1
       /\ Len(Scores(g)) > args.topk_typical
       /\ Len(typOut[g]) = args.topk_typical
       /\ args.max_rigid >= 1
       /\ ~NoRepeat(RigidCandidates(g))
       /\ Len(DedupFirst(RigidCandidates(g), {})) > args.max_rigid
       /\ Len(rigOut[g]) = args.max_rigid

MinOf(S) == CHOOSE v \in S : \A u \in S : v <= u
MaxOf(S) == CHOOSE v \in S : \A u \in S : v >= u

\* the weight w sits on the line from (mn, MIN_W) to (mx, MAX_W) at score v,
\* up to the rounding of the percentage of the way and of the weight
OnTheLine(w, v, mn, mx) ==
  LET pct == ((v - mn) * 100) \div (mx - mn)
      span == (MAX_W - MIN_W) \div 50
  IN  /\ 2 * (w - MIN_W) >= span * pct - 1
      /\ 2 * (w - MIN_W) <= span * (pct + 1) + 1

\* C12: every weight written to a typical artifact lies in [0.60, 0.95]; when
\* the kept properties do not all have the same adjusted score the highest
\* gets 0.95, the lowest 0.60 and the others are placed linearly between, so
\* that a higher score never gets a lower weight; when all kept scores are
\* equal, a single kept property included, every weight is 0.80.
C12_WeightNormalisation ==
  \A g \in Range(MACRO_GENRES) :
    (dpc = "done" /\ Len(typOut[g]) > 0) =>
      LET out == typOut[g]
          scores == Scores(g)
          sc == [j \in 1..Len(out) |-> CounterGet(scores, out[j].k)]
          mn == MinOf(Range(sc))
          mx == MaxOf(Range(sc))
      IN  /\ \A j \in 1..Len(out) : out[j].w >= MIN_W /\ out[j].w <= MAX_W
          /\ IF mn = mx
             THEN \A j \in 1..Len(out) : out[j].w = EQUAL_W
             ELSE \A j \in 1..Len(out) :
                    /\ sc[j] = mx => out[j].w = MAX_W
                    /\ sc[j] = mn => out[j].w = MIN_W
                    /\ OnTheLine(out[j].w, sc[j], mn, mx)
                    /\ \A i \in 1..Len(out) :
                         sc[i] > sc[j] => out[i].w >= out[j].w

\* one genre with three kept properties, the middle one strictly between the
\* ends, and another genre whose two kept properties have equal scores
C12_Witness ==
  /\ dpc = "done"
  /\ \E g \in Range(MACRO_GENRES) :
       /\ Len(typOut[g]) = 3
       /\ typOut[g][1].w = MAX_W
       /\ typOut[g][2].w > MIN_W /\ typOut[g][2].w < MAX_W
       /\ typOut[g][3].w = MIN_W
  /\ \E g \in Range(MACRO_GENRES) :
       /\ Len(typOut[g]) = 2
       /\ typOut[g][1].w = EQUAL_W /\ typOut[g][2].w = EQUAL_W

\* C13: a genre with zero assigned Tracks yields an empty typical output and
\* an empty rigid output, no fraction over the zero document count is formed
\* (its DF tables are empty), and the other genres are not affected: each of
\* them still gets the lines computed from its own tables.
C13_EmptyGenre ==
  dpc = "done" =>
    \A g \in Range(MACRO_GENRES) :
      IF AssignedTo(g) = {}
      THEN /\ typOut[g] = <<>>
           /\ rigOut[g] = <<>>
           /\ tag_df_by_g[g] = <<>>
           /\ word_df_by_g[g] = <<>>
           /\ \A p \in AllProps :
                CounterGet(global_genre_count, p)
                  <= Cardinality({h \in Range(MACRO_GENRES) : AssignedTo(h) # {}})
      ELSE /\ typOut[g] = TypicalLines(g)
           /\ rigOut[g] = RigidLines(g)

\* a finished run where a genre without Tracks comes before a genre whose
\* outputs are not empty
C13_Witness ==
  /\ dpc = "done"
  /\ \E g, h \in Range(MACRO_GENRES) :
       /\ AssignedTo(g) = {}
       /\ GIdx(g) < GIdx(h)
       /\ Len(typOut[h]) > 0
       /\ Len(rigOut[h]) > 0

\* the statement of C14 as written: p is a tag of every Track of A and of
\* no Track of B
C14_TagSeparation ==
  dpc = "done" =>
    \A A, B \in Range(MACRO_GENRES) : \A p \in AllProps :
      (A # B /\ NTracks(A) > 0 /\ TagDF(A, p) = NTracks(A) /\ TagDF(B, p) = 0)
        => /\ args.rigid_thr_tags <= 100 => p \in Range(RigidCandidates(A))
           /\ p \notin Range(TypNames(B))
           /\ p \notin Range(rigOut[B])

\* C14: given genres A and B where p is a tag of 100% of A's Tracks and is
\* neither a tag nor a counted lyric word of any Track of B, p is a candidate
\* for A's rigid set whenever 1.0 >= rigid_thr_tags (and is in A's rigid
\* output when the candidates fit into max_rigid), and p is never in B's
\* typical output nor in B's rigid output.
C14_Separation ==
  dpc = "done" =>
    \A A, B \in Range(MACRO_GENRES) : \A p \in AllProps :
      (/\ A # B
       /\ NTracks(A) > 0
       /\ TagDF(A, p) = NTracks(A)
       /\ TagDF(B, p) = 0
       /\ WordDF(B, p) = 0)
        => /\ args.rigid_thr_tags <= 100 =>
                /\ p \in Range(RigidCandidates(A))
                /\ Len(DedupFirst(RigidCandidates(A), {})) <= args.max_rigid
                     => p \in Range(rigOut[A])
           /\ p \notin Range(TypNames(B))
           /\ p \notin Range(rigOut[B])

\* p is rigid for A, and B has Tracks and non-empty outputs without p
C14_Witness ==
  /\ dpc = "done"
  /\ \E A, B \in Range(MACRO_GENRES) : \E p \in AllProps :
       /\ A # B
       /\ TagDF(A, p) = NTracks(A)
       /\ NTracks(A) > 0
       /\ NTracks(B) > 0
       /\ TagDF(B, p) = 0
       /\ WordDF(B, p) = 0
       /\ p \in Range(rigOut[A])
       /\ Len(typOut[B]) > 0
       /\ Len(rigOut[B]) > 0

\* C15: two runs of the Distiller on the same catalog with the same
\* parameters produce identical typical and rigid artifacts, the same lines in
\* the same order, for every genre.
C15_Deterministic ==
  (runNo = 2 /\ dpc = "done") =>
    /\ typOut = prevOut.typ
    /\ rigOut = prevOut.rig

\* the names of a DF table, in the order of the table, that pass a test
NamesWhere(table, Test(_)) ==
  LET kept == SelectSeq(table, LAMBDA e : Test(e.k))
  IN  [j \in 1..Len(kept) |-> kept[j].k]
FirstN(names, n) == SubSeq(names, 1, Min2(n, Len(names)))
RigidTag(g, p) == TagDF(g, p) * 100 >= args.rigid_thr_tags * NTracks(g)
RigidWordAnyDF(g, p) ==
  /\ p \in DOMAIN_WHITELIST
  /\ WordDF(g, p) * 100 >= args.rigid_thr_words * NTracks(g)
RigidWord(g, p) == RigidWordAnyDF(g, p) /\ WordDF(g, p) >= args.min_df_words

\* the statement of C19 as written: every whitelisted word with a DF fraction
\* of rigid_thr_words or more is a candidate
C19_RigidAnyDF ==
  dpc = "done" =>
    \A g \in Range(MACRO_GENRES) :
          NTracks(g) > 0 =>
            rigOut[g] =
              FirstN(DedupFirst(
                       NamesWhere(tag_df_by_g[g],
                                  LAMBDA p : RigidTag(g, p))
                         \o NamesWhere(word_df_by_g[g],
                                       LAMBDA p : RigidWordAnyDF(g, p)),
                       {}),
                     args.max_rigid)

\* C19: the rigid output of a genre is the list of its tags whose DF fraction
\* is >= rigid_thr_tags followed by its domain-whitelisted lyric words whose
\* DF count is >= min_df_words and whose DF fraction is >= rigid_thr_words,
\* each in the order of first appearance in the DF table, duplicates removed
\* keeping the first occurrence, cut to the first max_rigid entries; a lyric
\* word that is not whitelisted is rigid only as a tag.
C19_RigidSelection ==
  dpc = "done" =>
    \A g \in Range(MACRO_GENRES) :
          NTracks(g) > 0 =>
            /\ rigOut[g] =
                 FirstN(DedupFirst(
                          NamesWhere(tag_df_by_g[g],
                                     LAMBDA p : RigidTag(g, p))
                            \o NamesWhere(word_df_by_g[g],
                                          LAMBDA p : RigidWord(g, p)),
                          {}),
                        args.max_rigid)
            /\ \A j \in 1..Len(rigOut[g]) :
                 rigOut[g][j] \notin DOMAIN_WHITELIST
                   => /\ TagDF(g, rigOut[g][j]) > 0
                      /\ RigidTag(g, rigOut[g][j])

\* the last slot went to a tag while a word candidate was left out, and in
\* another genre a word that is no tag of the genre is rigid
C19_Witness ==
  /\ dpc = "done"
  /\ \E g \in Range(MACRO_GENRES) :
       /\ Len(rigOut[g]) = args.max_rigid
       /\ args.max_rigid >= 1
       /\ TagDF(g, rigOut[g][args.max_rigid]) > 0
       /\ \E p \in AllProps :
            /\ RigidWord(g, p)
            /\ TagDF(g, p) = 0
            /\ p \notin Range(rigOut[g])
  /\ \E g \in Range(MACRO_GENRES) : \E j \in 1..Len(rigOut[g]) :
       /\ TagDF(g, rigOut[g][j]) = 0
       /\ RigidWord(g, rigOut[g][j])

TagCandidate(g, p) ==
  /\ TagDF(g, p) > 0
  /\ TagDF(g, p) * 100 >= args.typical_thr_tags * NTracks(g)
WordCandidate(g, p) ==
  /\ WordDF(g, p) > 0
  /\ WordDF(g, p) >= args.min_df_words
  /\ WordDF(g, p) * 100 >= args.typical_thr_words * NTracks(g)
  /\ ~(p \in COMMON_GLOBAL /\ p \notin DOMAIN_WHITELIST)

\* C20: in each genre a tag is a typical candidate iff its DF fraction is >=
\* typical_thr_tags; a lyric word is one iff its DF count is >= min_df_words,
\* its DF fraction is >= typical_thr_words and it is not overly generic
\* unless whitelisted; every property of the typical output is a candidate.
C20_TypicalCandidates ==
  dpc = "done" =>
    \A g \in Range(MACRO_GENRES) :
          NTracks(g) > 0 =>
            LET tagKeys == CounterKeys(typical_tags_raw(g))
                wordKeys == CounterKeys(typical_words_raw(g))
            IN  /\ \A p \in AllProps :
                     /\ p \in tagKeys <=> TagCandidate(g, p)
                     /\ p \in wordKeys <=> WordCandidate(g, p)
                /\ \A j \in 1..Len(typOut[g]) :
                     \/ TagCandidate(g, typOut[g][j].k)
                     \/ WordCandidate(g, typOut[g][j].k)

\* a word that is no tag candidate is typical, and another word is left out
\* for its DF count alone
C20_Witness ==
  /\ dpc = "done"
  /\ \E g \in Range(MACRO_GENRES) : \E p \in Range(TypNames(g)) :
       WordCandidate(g, p) /\ ~TagCandidate(g, p)
  /\ \E g \in Range(MACRO_GENRES) : \E q \in AllProps :
       /\ WordDF(g, q) > 0
       /\ WordDF(g, q) < args.min_df_words
       /\ WordDF(g, q) * 100 >= args.typical_thr_words * NTracks(g)
       /\ ~TagCandidate(g, q)
       /\ q \notin Range(TypNames(g))

\* the number of genres in which p is a tag or a counted word of a Track
GenreCount(p) ==
  Cardinality({g \in Range(MACRO_GENRES) : TagDF(g, p) > 0 \/ WordDF(g, p) > 0})
\* 10000 * (0.45 + 0.55 / ln(2 + c)), the credit of a fraction of 1 at
\* genre_count c
Dampened(c) == CASE c = 1 -> 9506 [] c = 2 -> 8467 [] OTHER -> 7917
TagOnly(g, p) == TagCandidate(g, p) /\ ~WordCandidate(g, p)
WordOnly(g, p) == WordCandidate(g, p) /\ ~TagCandidate(g, p)
\* the adjusted score of a candidate of one kind with DF df, in the unit of
\* Scores
OneKindScore(p, df, kind) ==
  df * Dampened(GenreCount(p)) * kind
     * (IF p \in COMMON_GLOBAL THEN 2 ELSE 5)
     * (IF GenreCount(p) <= DISTINCTIVE_MAX_GENRES THEN 6 ELSE 5)

\* the statement of C21 as written: any two tag candidates, or any two word
\* candidates, with the same DF and the same membership in the generic set
C21_DampeningAnyKind ==
  dpc = "done" =>
    \A g \in Range(MACRO_GENRES) :
      NTracks(g) > 0 =>
        LET sc == Scores(g)
        IN  \A p, q \in CounterKeys(sc) :
              (/\ \/ /\ TagCandidate(g, p) /\ TagCandidate(g, q)
                     /\ TagDF(g, p) = TagDF(g, q)
                  \/ /\ WordCandidate(g, p) /\ WordCandidate(g, q)
                     /\ WordDF(g, p) = WordDF(g, q)
               /\ (p \in COMMON_GLOBAL <=> q \in COMMON_GLOBAL)
               /\ GenreCount(p) > GenreCount(q))
                => CounterGet(sc, p) <= CounterGet(sc, q)

\* C21: for two typical candidates of the same single kind (both tags only or
\* both words only) in the same genre with the same DF fraction and the same
\* membership in the generic set, the one with the larger genre_count never
\* gets a higher adjusted score; the score of a candidate of one kind is its
\* fraction times (ALPHA + (1 - ALPHA) / ln(2 + genre_count)), times 0.8 for
\* a word, times the penalty if generic, times the boost exactly when
\* genre_count <= DISTINCTIVE_MAX_GENRES.
C21_Dampening ==
  dpc = "done" =>
    \A g \in Range(MACRO_GENRES) :
      NTracks(g) > 0 =>
        LET sc == Scores(g)
        IN  /\ \A p \in CounterKeys(sc) :
                 /\ TagOnly(g, p) =>
                      CounterGet(sc, p) = OneKindScore(p, TagDF(g, p), 5)
                 /\ WordOnly(g, p) =>
                      CounterGet(sc, p) = OneKindScore(p, WordDF(g, p), 4)
            /\ \A p, q \in CounterKeys(sc) :
                 (/\ \/ /\ TagOnly(g, p) /\ TagOnly(g, q)
                        /\ TagDF(g, p) = TagDF(g, q)
                     \/ /\ WordOnly(g, p) /\ WordOnly(g, q)
                        /\ WordDF(g, p) = WordDF(g, q)
                  /\ (p \in COMMON_GLOBAL <=> q \in COMMON_GLOBAL)
                  /\ GenreCount(p) > GenreCount(q))
                   => CounterGet(sc, p) <= CounterGet(sc, q)

\* two tags of one genre, neither a word candidate, with the same DF: one is
\* in three genres and not boosted, the other in at most two and scores more
C21_Witness ==
  /\ dpc = "done"
  /\ \E g \in Range(MACRO_GENRES) : \E p, q \in CounterKeys(Scores(g)) :
       /\ TagOnly(g, p) /\ TagOnly(g, q)
       /\ TagDF(g, p) = TagDF(g, q)
       /\ p \notin COMMON_GLOBAL /\ q \notin COMMON_GLOBAL
       /\ GenreCount(p) > DISTINCTIVE_MAX_GENRES
       /\ GenreCount(q) <= DISTINCTIVE_MAX_GENRES
       /\ CounterGet(Scores(g), p) < CounterGet(Scores(g), q)

\* a label of the entry, normalized, maps to g through the lexicon or is g
LabelHit(e, g) ==
  \E l \in Range(e.subgenres) \cup Range(e.tags) :
    \/ \E it \in SUB2MACRO_items : it.name = norm_token(l) /\ it.v = g
    \/ norm_token(l) = g
\* a key of the lexicon that maps to g occurs in a lowercased text field
TextHit(e, g) ==
  \E it \in SUB2MACRO_items : \E f \in {e.title, e.album, e.artist} :
    it.v = g /\ IsSubstr(it.k, LowerText(f))

\* C22: a Track is assigned to macro-genre g exactly when one of its tag or
\* subgenre labels, normalized, maps to g through the lexicon or is g, or a
\* lexicon key that maps to g occurs in its lowercased title, album or artist;
\* otherwise it is assigned to no genre; a Track is listed at most once per
\* genre, and only the fixed macro-genres get Tracks.
C22_Assignment ==
  dpc = "df" =>
    /\ DOMAIN songs_by_genre = Range(MACRO_GENRES)
    /\ \A g \in Range(MACRO_GENRES) :
         /\ NoRepeat(songs_by_genre[g])
         /\ \A i \in 1..Len(catalog) :
              i \in Range(songs_by_genre[g])
                <=> (LabelHit(catalog[i], g) \/ TextHit(catalog[i], g))

\* one Track is in a genre only through a key inside a longer word of a text,
\* one has a label and is in no genre, one is in two genres
C22_Witness ==
  /\ dpc = "df"
  /\ \E i \in 1..Len(catalog) : \E g \in Range(MACRO_GENRES) :
       /\ i \in Range(songs_by_genre[g])
       /\ ~LabelHit(catalog[i], g)
       /\ \A it \in SUB2MACRO_items : it.k # Blob(catalog[i])
  /\ \E i \in 1..Len(catalog) :
       /\ Len(catalog[i].subgenres) > 0
       /\ Len(catalog[i].title) > 0
       /\ \A g \in Range(MACRO_GENRES) : i \notin Range(songs_by_genre[g])
  /\ \E i \in 1..Len(catalog) : \E g, h \in Range(MACRO_GENRES) :
       /\ g # h
       /\ i \in Range(songs_by_genre[g])
       /\ i \in Range(songs_by_genre[h])

\* the name occurs more than once in the list
Repeated(l, name) == Cardinality({k \in 1..Len(l) : l[k] = name}) > 1
NormTags(i) ==
  [k \in 1..Len(catalog[i].tags) |-> norm_token(catalog[i].tags[k])]

\* C23: in every genre the tag DF and the word DF of a property count each
\* assigned Track at most once, however often the tag or word occurs in it:
\* every DF is between 1 and the number of Tracks assigned to the genre (so
\* the fraction is in (0, 1]), and once the tables are complete it is the
\* number of the genre's Tracks that contain the property.
C23_DocumentFrequency ==
  \A g \in Range(MACRO_GENRES) :
    /\ \A j \in 1..Len(tag_df_by_g[g]) :
         /\ tag_df_by_g[g][j].n >= 1
         /\ tag_df_by_g[g][j].n <= NTracks(g)
         /\ dpc = "done" =>
              tag_df_by_g[g][j].n = TagDF(g, tag_df_by_g[g][j].k)
    /\ \A j \in 1..Len(word_df_by_g[g]) :
         /\ word_df_by_g[g][j].n >= 1
         /\ word_df_by_g[g][j].n <= NTracks(g)
         /\ dpc = "done" =>
              word_df_by_g[g][j].n = WordDF(g, word_df_by_g[g][j].k)
    /\ NoRepeat([j \in 1..Len(tag_df_by_g[g]) |-> tag_df_by_g[g][j].k])
    /\ NoRepeat([j \in 1..Len(word_df_by_g[g]) |-> word_df_by_g[g][j].k])

\* a tag that a Track lists twice and that is in both Tracks of its genre,
\* and a word that a Track holds twice and that is in every Track of its genre
C23_Witness ==
  /\ dpc = "done"
  /\ \E g \in Range(MACRO_GENRES) : \E p \in AllProps :
       /\ NTracks(g) >= 2
       /\ \E i \in TracksOf(g) : Repeated(NormTags(i), p)
       /\ CounterGet(tag_df_by_g[g], p) = NTracks(g)
  /\ \E g \in Range(MACRO_GENRES) : \E p \in AllProps :
       /\ NTracks(g) >= 1
       /\ \E i \in TracksOf(g) :
            Repeated(extract_words(catalog[i].lyrics), p)
       /\ CounterGet(word_df_by_g[g], p) = NTracks(g)

\* the genres that have Tracks, but fewer than min_df_words
SmallGenre(g) == NTracks(g) >= 1 /\ NTracks(g) < args.min_df_words

\* C28: in a genre with fewer Tracks than min_df_words, every name of the
\* typical output is there as a tag (its tag DF meets typical_thr_tags) and
\* every name of the rigid output is there as a tag (its tag DF meets
\* rigid_thr_tags): no lyric word is selected, whatever its DF and whether
\* or not it is whitelisted
C28_SmallGenreTagsOnly ==
  dpc = "done" =>
    \A g \in Range(MACRO_GENRES) :
      SmallGenre(g) =>
        /\ Len(frac_word(g)) = 0
        /\ \A j \in 1..Len(typOut[g]) : TagCandidate(g, typOut[g][j].k)
        /\ \A j \in 1..Len(rigOut[g]) :
             TagDF(g, rigOut[g][j]) > 0 /\ RigidTag(g, rigOut[g][j])

\* a genre of one Track with min_df_words = 2 where a whitelisted word that
\* is no tag of the genre is in every Track and meets both word thresholds,
\* and a tag is selected in both outputs
C28_Witness ==
  /\ dpc = "done"
  /\ \E g \in Range(MACRO_GENRES) : \E p \in DOMAIN_WHITELIST :
       /\ SmallGenre(g)
       /\ WordDF(g, p) = NTracks(g)
       /\ TagDF(g, p) = 0
       /\ AtLeast(WordDF(g, p), NTracks(g), args.typical_thr_words)
       /\ AtLeast(WordDF(g, p), NTracks(g), args.rigid_thr_words)
       /\ Len(typOut[g]) > 0 /\ Len(rigOut[g]) > 0
       /\ \A j \in 1..Len(typOut[g]) : typOut[g][j].k # p
       /\ \A j \in 1..Len(rigOut[g]) : rigOut[g][j] # p

(***************************************************************************)
(* cocos.py: write_result, and the hand-off to DataFromInput.py            *)
(*                                                                         *)
(* The text of a profile file is a sequence of tokens: the separators      *)
(* NL, ",", ":", " ", the brackets and quotes of JSON, and words that hold *)
(* none of them.                                                           *)
(***************************************************************************)
NL == "\n"
MaxWrites == 2   \* successive write_result calls on one file

\* the positions of the token c in the text t
PositionsOf(t, c) == SelectSeq([j \in 1..Len(t) |-> j], LAMBDA j : t[j] = c)

\* f.readlines(): the lines, each with its terminator
ReadLines(text) ==
  LET ends == PositionsOf(text, NL)
      last == IF Len(ends) = 0 THEN 0 ELSE ends[Len(ends)]
      n == Len(ends) + (IF last < Len(text) THEN 1 ELSE 0)
  IN  [k \in 1..n |->
         SubSeq(text, IF k = 1 THEN 1 ELSE ends[k - 1] + 1,
                IF k <= Len(ends) THEN ends[k] ELSE Len(text))]

RECURSIVE WriteLines(_)
\* f.writelines(lines)
WriteLines(lines) ==
  IF Len(lines) = 0 THEN <<>> ELSE lines[1] \o WriteLines(Tail(lines))

ResultPrefix == <<"Result", ":">>
ScenarioPrefix == <<"Scenario", ":">>

\* mutant of clean_previous_results: only the 'Result:' lines are removed
clean_previous_resultsResultOnly(text) ==
  LET lines == ReadLines(text)
      filtered == SelectSeq(lines, LAMBDA ln : ~StartsWith(ln, ResultPrefix))
  IN  IF filtered # lines THEN WriteLines(filtered) ELSE text

\* cocos.py 46-53
clean_previous_results(text) ==
  LET lines == ReadLines(text)
      filtered == SelectSeq(lines,
                            LAMBDA ln : ~(\/ StartsWith(ln, ResultPrefix)
                                          \/ StartsWith(ln, ScenarioPrefix)))
  IN  IF filtered # lines THEN WriteLines(filtered) ELSE text

\* the weights and scores of the model: float(token) in thousandths
WeightToks == <<"0.9", "0.8", "0.75", "0.72", "0.5">>
WeightVals == <<900, 800, 750, 720, 500>>
\* float(l[2]) for the text of a weight
FloatOf(part) ==
  IF Len(part) = 1 /\ part[1] \in Range(WeightToks)
  THEN WeightVals[CHOOSE j \in 1..Len(WeightToks) : WeightToks[j] = part[1]]
  ELSE -1
\* json.dumps(v) and f'{v}' of a float
FloatText(v) == WeightToks[CHOOSE j \in 1..Len(WeightVals) : WeightVals[j] = v]

RECURSIVE DictItems(_)
\* ', '.join of the '"k": v' items of json.dumps(dict); it is [k, w, meta],
\* k a word
DictItems(items) ==
  IF Len(items) = 0 THEN <<>>
  ELSE <<"\"", items[1].k, "\"", ":", " ", FloatText(items[1].w)>>
       \o (IF Len(items) = 1 THEN <<>>
           ELSE <<",", " ">> \o DictItems(Tail(items)))
\* json.dumps(best_props)
DumpsDict(items) == <<"{">> \o DictItems(items) \o <<"}">>

RECURSIVE ListItems(_)
ListItems(toks) ==
  IF Len(toks) = 0 THEN <<>>
  ELSE <<toks[1]>>
       \o (IF Len(toks) = 1 THEN <<>> ELSE <<",", " ">> \o ListItems(Tail(toks)))
\* json.dumps(best_raw): raw is [bits, score]
DumpsList(raw) ==
  <<"[">> \o ListItems([j \in 1..Len(raw.bits) |->
                          IF raw.bits[j] = 1 THEN "1" ELSE "0"]
                       \o <<FloatText(raw.score)>>) \o <<"]">>

\* cocos.py 56-61
write_result(text, best_props, best_raw) ==
  clean_previous_results(text)
    \o <<NL>> \o ResultPrefix \o <<" ">> \o DumpsDict(best_props)
    \o <<NL>> \o ScenarioPrefix \o <<" ">> \o DumpsList(best_raw)

RECURSIVE DictPut(_, _, _)
\* d[k] = w on an insertion-ordered dict of [k, w]
DictPut(d, k, w) ==
  IF Len(d) = 0 THEN <<[k |-> k, w |-> w]>>
  ELSE IF d[1].k = k THEN <<[k |-> k, w |-> w]>> \o Tail(d)
  ELSE <<d[1]>> \o DictPut(Tail(d), k, w)

RECURSIVE SelectedProps(_, _, _)
\* cocos.py 20-23: props[typical_props[i][0]] = typical_props[i][1] for the
\* bits that are 1
SelectedProps(bits, typical_props, i) ==
  IF i = 0 THEN <<>>
  ELSE LET before == SelectedProps(bits, typical_props, i - 1)
       IN  IF bits[i] = 1
           THEN DictPut(before, typical_props[i].name[1], typical_props[i].w)
           ELSE before

\* cocos.py 13-29, 32-43, 94: the selected properties by (-value, name), then
\* '@scenario_probability' and '@scenario_score'
best_props_of(raw, typical_props) ==
  SortLines(SelectedProps(raw.bits, typical_props, Len(typical_props)))
    \o <<[k |-> "@scenario_probability", w |-> raw.score],
         [k |-> "@scenario_score", w |-> raw.score]>>

\* str.strip() on a text with line terminators
StripWs(t) ==
  LET keep == SelectSeq([j \in 1..Len(t) |-> j],
                        LAMBDA j : t[j] \notin {" ", NL})
  IN  IF Len(keep) = 0 THEN <<>> ELSE SubSeq(t, keep[1], keep[Len(keep)])

\* str.split(sep)
SplitOn(t, sep) ==
  LET at == PositionsOf(t, sep)
  IN  [k \in 1..(Len(at) + 1) |->
         SubSeq(t, IF k = 1 THEN 1 ELSE at[k - 1] + 1,
                IF k <= Len(at) THEN at[k] - 1 ELSE Len(t))]

\* DataFromInput.py 8-12: the stripped lines that are neither blank nor
\* comments
InputLines(text) ==
  LET lines == ReadLines(text)
      stripped == [j \in 1..Len(lines) |-> StripWs(lines[j])]
  IN  SelectSeq(stripped, LAMBDA x : x # <<>> /\ x[1] # "#")

\* l[0][0] == 'T' and l[0][2:-1] == 'head' on the first part of a line
FirstCharIsT(part) == part[1] \in {"T(head)", "T(modifier)", "Title"}
IsTHead(part) == part = <<"T(head)">>

\* DataFromInput.py 26-27: the stripped parts of a line
PartsOf(line) ==
  LET parts == SplitOn(line, ",")
  IN  [j \in 1..Len(parts) |-> StripWs(parts[j])]

\* the text after the first ':' of a line, stripped: split(':', 1)[1].strip()
AfterColon(line) ==
  LET k == CHOOSE j \in 1..Len(line) :
             line[j] = ":" /\ \A q \in 1..(j - 1) : line[q] # ":"
  IN  StripWs(SubSeq(line, k + 1, Len(line)))

\* f.result as parse_scenario_bits reads it (Recommender.py 42-61): a JSON
\* list gives its items; any other text is cut at the commas once '[' and
\* ']' are stripped from its ends, quotes and blanks stripped from each part
ResultToks(text) ==
  LET tok(part) == IF part = <<"1">> THEN "1"
                   ELSE IF part = <<"0">> THEN "0" ELSE "s"
      inner == IF Len(text) >= 2 /\ text[1] = "[" /\ text[Len(text)] = "]"
               THEN SubSeq(text, 2, Len(text) - 1) ELSE text
      parts == IF inner = <<>> THEN <<>> ELSE PartsOf(inner)
      bare == [j \in 1..Len(parts) |->
                 SelectSeq(parts[j], LAMBDA c : c # "\"")]
  IN  [fmt |-> IF Len(text) >= 2 /\ text[1] = "[" /\ text[Len(text)] = "]"
               THEN "json" ELSE "legacy",
       toks |-> [j \in 1..Len(bare) |-> tok(bare[j])]]

\* DataFromInput.py 42-45: self.result
ResultLine(lines) ==
  IF Len(lines) > 0 /\ StartsWith(lines[Len(lines)], ResultPrefix)
  THEN AfterColon(lines[Len(lines)])
  ELSE <<"[", "]">>

\* DataFromInput.py 6-45: ReadAttributes(path); the first three lines are
\* the title and the two concept names
ReadAttributesOf(text) ==
  LET all == InputLines(text)
      lines == SubSeq(all, 4, Len(all))
      parts == [j \in 1..Len(lines) |-> PartsOf(lines[j])]
      typ == SelectSeq(parts, LAMBDA l : Len(l) = 3 /\ FirstCharIsT(l[1]))
      rig == SelectSeq(parts, LAMBDA l : Len(l) = 2)
  IN  [attrs |-> [j \in 1..Len(rig) |->
                    [name |-> rig[j][2], head |-> rig[j][1] = <<"head">>]],
       tipical_attrs |-> [j \in 1..Len(typ) |->
                            [name |-> typ[j][2], w |-> FloatOf(typ[j][3]),
                             head |-> IsTHead(typ[j][1])]],
       result |-> ResultToks(ResultLine(lines))]

RECURSIVE RigidText(_, _)
\* cocos_preprocessing.py 39-40, 43-44: one line per rigid property
RigidText(kind, names) ==
  IF Len(names) = 0 THEN <<>>
  ELSE <<kind, ",", " ", names[1], NL>> \o RigidText(kind, Tail(names))

RECURSIVE TypicalText(_, _)
\* cocos_preprocessing.py 49-50, 54-55: one line per typical property
TypicalText(kind, props) ==
  IF Len(props) = 0 THEN <<>>
  ELSE <<kind, ",", " ", props[1].k, ",", " ", FloatText(props[1].w), NL>>
       \o TypicalText(kind, Tail(props))

\* cocos_preprocessing.py 32-56: write_cocos_file for the concepts rock, pop
CocosFile(hr, mr, mt, ht) ==
  <<"Title", ":", " ", "rock-pop", NL, NL,
    "Head", " ", "Concept", " ", "Name", ":", " ", "rock", NL,
    "Modifier", " ", "Concept", " ", "Name", ":", " ", "pop", NL, NL>>
    \o RigidText("head", hr) \o <<NL>>
    \o RigidText("modifier", mr) \o <<NL>>
    \o TypicalText("T(modifier)", mt) \o <<NL>>
    \o TypicalText("T(head)", ht) \o <<NL>>

Tp(k, w) == [k |-> k, w |-> w]
\* the files the blend step starts from: as write_cocos_file leaves them,
\* with the lines of an older run in the middle, or with a last line that
\* has no terminator
CocosFiles ==
  LET plain == {CocosFile(hr, mr, mt, ht) :
                  hr \in {<<>>, <<"riff">>}, mr \in {<<>>, <<"flow">>},
                  mt \in {<<>>, <<Tp("catchy_chorus", 900)>>},
                  ht \in {<<>>, <<Tp("dark", 800)>>,
                          <<Tp("dark", 800), Tp("money", 750)>>}}
  IN  plain
        \cup {f \o <<"Scenario", ":", " ", "[", "0.5", "]", NL,
                     "Result", ":", " ", "{", "}", NL,
                     "modifier", ",", " ", "pop", NL>> : f \in plain}
        \cup {f \o <<"head", ",", " ", "rock">> : f \in plain}

NoCall == [props |-> <<>>, raw |-> [bits |-> <<>>, score |-> 0]]

FileIdle ==
  /\ cfile = <<>> /\ origFile = <<>> /\ lastCall = NoCall /\ wn = 0
  /\ fpc = "idle"

\* cocos.py 72-74: run_cocos_on_file is about to read the file
FileInit ==
  /\ cfile \in CocosFiles
  /\ origFile = cfile /\ lastCall = NoCall /\ wn = 0
  /\ fpc = "blend"

\* cocos.py 74-102: one run of the blend step that recommends a scenario;
\* best[0] is any vector of one bit per typical property and a score
WriteResult ==
  /\ fpc = "blend" /\ wn < MaxWrites
  /\ LET typical_props == ReadAttributesOf(cfile).tipical_attrs
     IN  \E bits \in [1..Len(typical_props) -> {0, 1}], score \in {720, 500} :
           LET raw == [bits |-> bits, score |-> score]
               props == best_props_of(raw, typical_props)
           IN  /\ cfile' = write_result(cfile, props, raw)
               /\ lastCall' = [props |-> props, raw |-> raw]
  /\ wn' = wn + 1
  /\ UNCHANGED <<origFile, fpc>>
  /\ UNCHANGED <<mvars, bvars, pvars, dvars>>

\* Recommender.py 258: f = ReadAttributes(prototipo)
ReadAttributes ==
  /\ fpc = "blend"
  /\ profile' = ReadAttributesOf(cfile)
  /\ bpc' = "call"
  /\ fpc' = "read"
  /\ UNCHANGED <<clean, anchors, cfile, origFile, lastCall, wn>>
  /\ UNCHANGED <<mvars, pvars, dvars>>

(***************************************************************************)
(* Claims about the blend step and its hand-off                            *)
(***************************************************************************)
\* the rigid names and the typical properties that the file lists
RigidListed ==
  LET all == InputLines(origFile)
      parts == [j \in 1..Len(all) |-> PartsOf(all[j])]
  IN  {parts[j][2] : j \in {q \in 1..Len(parts) :
                               /\ Len(parts[q]) = 2
                               /\ parts[q][1] \in {<<"head">>, <<"modifier">>}}}
TypicalListed == ReadAttributesOf(origFile).tipical_attrs
HandedOff == bpc = "done" /\ fpc = "read" /\ wn >= 1

\* C25: for a file as left by write_result, ReadAttributes followed by
\* build_clean_prototype gives an active-property set that contains every
\* typical property whose bit in the Scenario vector is 1, and an anchor
\* set that contains only the rigid names listed in the file; the Result
\* and Scenario lines add no anchor and no active property.
C25_Handoff ==
  HandedOff =>
    /\ \A i \in 1..Len(lastCall.raw.bits) :
         lastCall.raw.bits[i] = 1 => TypicalListed[i].name \in Range(clean)
    /\ anchors \subseteq RigidListed
    /\ Range(clean) \subseteq
         RigidListed \cup {TypicalListed[i].name : i \in 1..Len(TypicalListed)}

\* the lines of a text without their terminators
LinesOfText(text) ==
  LET lines == ReadLines(text)
  IN  [j \in 1..Len(lines) |->
         SelectSeq(lines[j], LAMBDA c : c # NL)]
IsResultLine(ln) == StartsWith(ln, ResultPrefix)
IsScenarioLine(ln) == StartsWith(ln, ScenarioPrefix)
OtherLines(text) ==
  SelectSeq(LinesOfText(text),
            LAMBDA ln : ~IsResultLine(ln) /\ ~IsScenarioLine(ln))
RECURSIVE IsSubseq(_, _)
\* the elements of a occur in b in the order of a
IsSubseq(a, b) ==
  IF Len(a) = 0 THEN TRUE
  ELSE IF Len(b) = 0 THEN FALSE
  ELSE IF a[1] = b[1] THEN IsSubseq(Tail(a), Tail(b))
  ELSE IsSubseq(a, Tail(b))

\* C26: after any number of write_result calls on a file, the file has
\* exactly one line starting with 'Result:' and exactly one starting with
\* 'Scenario:', both written by the most recent call, and every line of the
\* original file that starts with neither prefix is still there, in the
\* original order.
C26_ResultRewritten ==
  wn >= 1 =>
    LET lines == LinesOfText(cfile)
    IN  /\ SelectSeq(lines, IsResultLine)
             = <<ResultPrefix \o <<" ">> \o DumpsDict(lastCall.props)>>
        /\ SelectSeq(lines, IsScenarioLine)
             = <<ScenarioPrefix \o <<" ">> \o DumpsList(lastCall.raw)>>
        /\ IsSubseq(OtherLines(origFile), OtherLines(cfile))

\* a file that held the lines of an older run between other lines was
\* written twice, the second time with another scenario, and the line after
\* the old result is still there
C26_Witness ==
  /\ wn = 2
  /\ \E j \in 1..Len(LinesOfText(origFile)) :
       IsResultLine(LinesOfText(origFile)[j])
  /\ Len(lastCall.raw.bits) = 3 /\ lastCall.raw.bits = <<1, 0, 1>>
  /\ <<"modifier", ",", " ", "pop">> \in Range(OtherLines(cfile))
  /\ Len(SelectSeq(LinesOfText(cfile), IsScenarioLine)) = 1

\* the Track whose thresholds the filter loop is about to evaluate
AtThresholds == mpc = "filter" /\ mi <= Len(data) /\ HasId(data[mi])

\* C24: when the thresholds are evaluated for a Track, matches holds each
\* active property at most once and only properties word-contained in one
\* of the Track's descriptive or title/artist fields, and anchor_hits is
\* exactly the set of the matched properties that are anchors (a subset of
\* matches).
C24_CoverageBookkeeping ==
  AtThresholds =>
    LET matches == MatchesOf(data[mi], prop_list, not_prop_list)
        anchor_hits == AnchorHitsOf(data[mi], prop_list, anchors_set)
    IN  /\ \A p, q \in 1..Len(matches) : p # q => matches[p] # matches[q]
        /\ \A p \in Range(matches) :
             p \in Range(prop_list) /\ WordIn(data[mi], p)
        /\ anchor_hits = Range(matches) \cap anchors_set

\* C29: with an empty active-property set no Track is admitted and the
\* final score of every Track is 0, for every min_match_rate and every
\* min_anchors (0 included); nothing is listed.
C29_EmptyActiveSet ==
  (FilterFinished /\ Len(prop_list) = 0) =>
    /\ admitted = {} /\ lista_istanze = <<>>
    /\ \A j \in Tracks : graduatoria[IdAt(j)] = 0
    /\ printed = 0 /\ output = <<>>

\* the run ended with an empty active set, both thresholds 0, and a catalog
\* of two Tracks of which one has a persisted Prototype
C29_Witness ==
  /\ mpc = "done" /\ Len(prop_list) = 0
  /\ min_anchors = 0 /\ min_match_rate = 0
  /\ Cardinality(Tracks) = 2
  /\ \E j \in Tracks : IdAt(j) \in DOMAIN protFiles
  /\ admitted = {} /\ printed = 0

ItemLines == SelectSeq(output, LAMBDA l : l.kind = "item")

\* C30: in the final listing every entry is an admitted record under its
\* own identifier, every admitted record with a non-zero score is listed
\* exactly once when max_print is not given, and the classified count
\* exceeds neither the number of catalog records nor max_print.
C30_ListedOnce ==
  mpc = "done" =>
    /\ \A k \in 1..Len(ItemLines) :
         \E j \in admitted :
           /\ LabelOf(data[j]) = ItemLines[k].label
           /\ IdAt(j) = ItemLines[k].artwork
    /\ max_print = 0 =>
         \A j \in admitted :
           graduatoria[IdAt(j)] # 0 =>
             Cardinality({k \in 1..Len(ItemLines) :
                            ItemLines[k].label = LabelOf(data[j])})
               = Cardinality({q \in admitted :
                                LabelOf(data[q]) = LabelOf(data[j])})
    /\ printed <= tot_items
    /\ max_print # 0 => printed <= max_print

BuildIdle ==
  /\ profile = Empty /\ clean = <<>> /\ anchors = {} /\ bpc = "idle"

\* one run of the Matcher
Init == MatcherInit /\ BuildIdle /\ ProtoIdle /\ DistillIdle /\ FileIdle
Next ==
  \/ ScoreInstance \/ ScoreDone \/ FilterInstance \/ FilterDone
  \/ PrintArtwork \/ PrintDone \/ Report
Spec == Init /\ [][Next]_vars

\* one call of build_clean_prototype
InitBuild == BuildInit /\ MatcherIdle /\ ProtoIdle /\ DistillIdle /\ FileIdle
NextBuild == BuildCleanPrototype
SpecBuild == InitBuild /\ [][NextBuild]_vars

\* one run of the Prototype Builder
InitBuilder == ProtoInit /\ MatcherIdle /\ BuildIdle /\ DistillIdle /\ FileIdle
NextBuilder ==
  \/ StartItem \/ FetchToken \/ ProcessToken \/ RaiseInItem \/ EndItem
  \/ WritePrototypes
SpecBuilder == InitBuilder /\ [][NextBuilder]_vars

\* the writing phase of the Prototype Builder, from any counts
InitWriter == WriterInit /\ MatcherIdle /\ BuildIdle /\ DistillIdle /\ FileIdle
NextWriter == WritePrototypes
SpecWriter == InitWriter /\ [][NextWriter]_vars

\* one run of the Distiller
InitDistill == DistillInit /\ MatcherIdle /\ BuildIdle /\ ProtoIdle /\ FileIdle
NextDistill ==
  \/ Partition \/ CountSong \/ NextGenre \/ CountGenres
  \/ DistillEmptyGenre \/ DistillGenre \/ DistillDone
SpecDistill == InitDistill /\ [][NextDistill]_vars

\* one run of the Matcher on catalogs with any identifiers
InitListing == ListingInit /\ BuildIdle /\ ProtoIdle /\ DistillIdle /\ FileIdle
SpecListing == InitListing /\ [][Next]_vars

\* the blend step writes its result, the Matcher reads the file
InitHandoff ==
  /\ FileInit
  /\ profile = Empty /\ clean = <<>> /\ anchors = {} /\ bpc = "idle"
  /\ MatcherIdle /\ ProtoIdle /\ DistillIdle
NextHandoff == WriteResult \/ ReadAttributes \/ BuildCleanPrototype
SpecHandoff == InitHandoff /\ [][NextHandoff]_vars

\* the partition of the Distiller on catalogs of labelled entries
InitAssign ==
  /\ catalog \in AssignCatalogs
  /\ args = Args(85, 98, 85, 98, 10, 5, 3)
  /\ DistillStart
  /\ runNo = 1
  /\ prevOut = NoOut
  /\ MatcherIdle /\ BuildIdle /\ ProtoIdle /\ FileIdle
NextAssign == Partition
SpecAssign == InitAssign /\ [][NextAssign]_vars

\* two runs of the Distiller on the same input
NextRerun == NextDistill \/ Rerun
SpecRerun == InitDistill /\ [][NextRerun]_vars

====
